---- MODULE Spec2Model ----
(***************************************************************************)
(* C64 KRV (Kernal ROM / Video) switcher, Arduino sketch v1.1              *)
(* (src/Arduino/c64krvsw/c64krvsw.ino).                                    *)
(*                                                                         *)
(* The sketch is one thread of control (setup, then loop forever) that is  *)
(* preempted by two row interrupts.  The main thread is modelled statement *)
(* group by statement group with a program counter; every pin write of the *)
(* reset sequencing is a step of its own, so the intermediate line levels  *)
(* are states.  The two interrupt handlers run to completion and may fire  *)
(* between any two steps once they are attached.                           *)
(*                                                                         *)
(* A pin is a level (the last digitalWrite) and, for the two reset pins,   *)
(* a direction (the last pinMode).  The scratch byte `columns` (line 283)  *)
(* is read only in the statement after the one that writes it and is kept  *)
(* as the bound input of the watchdog step.                                *)
(***************************************************************************)
EXTENDS Integers, Naturals, Sequences, FiniteSets, TLC

---------------------------------------------------------------------------
(* Program constants                                                       *)

KMax == 8
KernalSlot == 0
ScanActiveSlot == 1
NPModeSlot == 2

\* Countdown defaults, scaled down from 10000 and 5000 loop ticks.
Default_Scan_Count == 2
Default_Restore_Count == 2

\* Persisted bytes tried at power-on: 0..MaxStoreByte and the erased cell 255.
MaxStoreByte == 9
StoreBytes == (0..MaxStoreByte) \cup {255}

\* Column snapshots PINC & 0x1F offered by the keyboard matrix: idle (0x1F),
\* all-low (0x00), each single column low (0x0F, 0x1E, 0x1D, 0x1B, 0x17) and
\* two columns low at once (0x0E: columns 7 and 1, 0x13: columns 3 and 4).
Columns == {31, 0, 15, 30, 29, 27, 23, 14, 19}

\* every 5-bit snapshot
AllColumns == 0..31

Byte(n) == n % 256

---------------------------------------------------------------------------
VARIABLES
  kernal_num, kernal_addr, np_mode, restore_found, restore_counter, key,
  scan_counter, scan_found, scan_active,
  numPressed, numOdd, colData,
  eeprom,          \* EEPROM cells 0..2
  pin,             \* level last written to each output pin
  dir,             \* direction of the two reset pins
  attached,        \* row interrupts attached (line 162-163)
  pc, ctx,         \* position of the main thread: statement label, call site
  runs,            \* history: call sites of the reset sequences started in
                   \* the current loop iteration
  boot,            \* history: the EEPROM as found at power-on, kept until
                   \* the interrupts are attached
  iter0,           \* history: Selection state when the current loop
                   \* iteration began
  pre,             \* history: Selection state when the number key of the
                   \* current iteration was taken up (line 322)
  cap,             \* history: snapshot and row of the interrupt that marked
                   \* the event pending
  released,        \* history: RESTORE has been sampled not held (line 305)
  last,            \* history: the last RESTORE + number key handled, with
                   \* the state it left, while no other reset sequence has
                   \* run since; the state before it is kept for key 9
  quiet,           \* history: watchdog ticks that found no scan activity
                   \* since scan_counter was last set
  wrote,           \* history: the EEPROM cells setup() has written, kept
                   \* until the interrupts are attached
  fired            \* history: a long-press reset has been started since
                   \* RESTORE was last sampled not held

vars == <<kernal_num, kernal_addr, np_mode, restore_found, restore_counter,
          key, scan_counter, scan_found, scan_active, numPressed, numOdd,
          colData, eeprom, pin, dir, attached, pc, ctx, runs, boot, iter0,
          pre, cap, released, last, quiet, wrote,
          fired>>

mainVars == <<kernal_num, kernal_addr, np_mode, restore_found,
              restore_counter, key, scan_counter, scan_active>>
isrVars == <<numPressed, numOdd, colData>>
histVars == <<boot, iter0, pre, cap, released, wrote, fired>>

\* value carried by the three address lines (A13 = bit 0)
AddrLines ==
  (IF pin.A13 = "HIGH" THEN 1 ELSE 0) + (IF pin.A14 = "HIGH" THEN 2 ELSE 0)
    + (IF pin.A15 = "HIGH" THEN 4 ELSE 0)

\* what the history variables record
Snapshot ==
  [sel |-> kernal_num, scan |-> scan_active, np |-> np_mode,
   store |-> eeprom, addr |-> AddrLines, pins |-> pin, dirs |-> dir]

---------------------------------------------------------------------------
(* Control flow of the main thread                                         *)

ResetSteps == <<"R1", "R2", "R3", "R4", "R5", "R6">>
UnresetSteps == <<"U0", "U1", "U2", "U3", "U4", "U5", "U6", "U7">>
AddressSteps == <<"A1", "A2", "A3">>
VideoSteps == <<"V1", "V2", "V3", "V4">>

\* setup(), from the first EEPROM read on
SetupProg ==
  <<"S_kernal", "S_addr", "S_scan", "S_np">> \o ResetSteps \o AddressSteps
    \o VideoSteps \o <<"S_count", "S_attach">> \o UnresetSteps


\* variant: the address bits are set before the system is put in reset
SwitchKernal_m ==
  AddressSteps \o ResetSteps \o <<"D_settle">> \o UnresetSteps
    \o <<"D_final", "B">>

\* SwitchKernal()
SwitchKernal ==
  ResetSteps \o AddressSteps \o <<"D_settle">> \o UnresetSteps
    \o <<"D_final", "B">>

\* SwitchVideo()
SwitchVideo ==
  ResetSteps \o VideoSteps \o <<"D_settle">> \o UnresetSteps
    \o <<"D_final", "B">>

\* variant: the long press applies the video mode again
LongPress_m ==
  ResetSteps \o VideoSteps \o <<"LP_book", "D_settle">> \o UnresetSteps

\* the RESTORE long-press branch of loop()
LongPress ==
  ResetSteps \o <<"LP_book", "D_settle">> \o UnresetSteps

LoopProg == <<"L_wd", "L_restore", "L_key", "L_end">>

Prog(c) ==
  CASE c = "setup" -> SetupProg
    [] c = "recover" -> SwitchKernal
    [] c = "chord" -> SwitchKernal
    [] c = "video" -> SwitchVideo
    [] c = "longpress" -> LongPress
    [] c = "loop" -> LoopProg

\* where loop() goes on after the call made at call site c returns
ReturnTo(c) ==
  CASE c = "setup" -> "L_wd"
    [] c = "recover" -> "L_restore"
    [] c = "longpress" -> "L_key"
    [] c = "chord" -> "L_end"
    [] c = "video" -> "L_end"
    [] c = "loop" -> "L_wd"

IndexOf(s, x) == CHOOSE i \in 1..Len(s) : s[i] = x

\* the statement after pc
Advance ==
  LET p == Prog(ctx)
      i == IndexOf(p, pc)
  IN IF i < Len(p)
       THEN pc' = p[i + 1] /\ ctx' = ctx
       ELSE pc' = ReturnTo(ctx) /\ ctx' = "loop"

\* call the reset sequence of call site c
Call(c) ==
  /\ pc' = Prog(c)[1]
  /\ ctx' = c
  /\ runs' = Append(runs, c)
  /\ last' = (IF c = "chord" \/ c = "video" THEN last ELSE {})

---------------------------------------------------------------------------
Init ==
  /\ kernal_num = 0
  /\ kernal_addr = 0
  /\ np_mode = 1
  /\ restore_found = FALSE
  /\ restore_counter = 0
  /\ key = 128
  /\ scan_counter = 0
  /\ scan_found = FALSE
  /\ scan_active = 1
  /\ numPressed = FALSE
  /\ numOdd = FALSE
  /\ colData = 31
  /\ eeprom \in [0..2 -> StoreBytes]
  /\ pin = [p \in {"A13", "A14", "A15", "NeN", "PeN", "C64RES", "EXROMRES"}
              |-> "LOW"]
  /\ dir = [C64RES |-> "OUTPUT", EXROMRES |-> "INPUT"]
  /\ attached = FALSE
  /\ pc = "S_kernal"
  /\ ctx = "setup"
  /\ runs = <<>>
  /\ boot = {eeprom}
  /\ iter0 = {}
  /\ pre = {}
  /\ cap = {}
  /\ released = FALSE
  /\ last = {}
  /\ quiet = 0
  /\ wrote = {}
  /\ fired = FALSE

---------------------------------------------------------------------------
(* setup(): validation of the persisted bytes (lines 130-148)              *)


\* variant: only the upper bound of the Kernal number is tested
KernalOutOfRange_m(b) == b > KMax

\* line 131: the persisted Kernal number is out of range
KernalOutOfRange(b) == (b < 1) \/ (b > KMax)

\* lines 139 and 145: the persisted flag is neither 0 nor 1
FlagOutOfRange(b) == (b # 0) /\ (b # 1)


\* variant: an out-of-range Kernal number is replaced in memory only
S_kernal_m ==
  /\ pc = "S_kernal"
  /\ LET b == eeprom[KernalSlot]
     IN kernal_num' = (IF (b < 1) \/ (b > KMax) THEN 1 ELSE b)
  /\ eeprom' = eeprom
  /\ wrote' = wrote
  /\ Advance
  /\ UNCHANGED <<kernal_addr, np_mode, restore_found, restore_counter, key,
                 scan_counter, quiet, scan_found, scan_active, isrVars, pin, dir,
                 attached, runs, last>>
  /\ UNCHANGED <<boot, iter0, pre, cap, released, fired>>

\* lines 130-134
S_kernal ==
  /\ pc = "S_kernal"
  /\ LET b == eeprom[KernalSlot]
     IN IF KernalOutOfRange(b)
          THEN /\ kernal_num' = 1
               /\ eeprom' = [eeprom EXCEPT ![KernalSlot] = 1]
               /\ wrote' = wrote \cup {KernalSlot}
          ELSE /\ kernal_num' = b
               /\ eeprom' = eeprom
               /\ wrote' = wrote
  /\ Advance
  /\ UNCHANGED <<kernal_addr, np_mode, restore_found, restore_counter, key,
                 scan_counter, quiet, scan_found, scan_active, isrVars, pin, dir,
                 attached, runs, last>>
  /\ UNCHANGED <<boot, iter0, pre, cap, released, fired>>

\* line 136
S_addr ==
  /\ pc = "S_addr"
  /\ kernal_addr' = Byte(kernal_num + 255)
  /\ Advance
  /\ UNCHANGED <<kernal_num, np_mode, restore_found, restore_counter, key,
                 scan_counter, quiet, scan_found, scan_active, isrVars, eeprom, pin,
                 dir, attached, runs, last>>
  /\ UNCHANGED histVars


\* variant: the scan flag is written back whether it was in range or not
S_scan_rewrite ==
  /\ pc = "S_scan"
  /\ LET b == eeprom[ScanActiveSlot]
         v == IF FlagOutOfRange(b) THEN 1 ELSE b
     IN /\ scan_active' = v
        /\ eeprom' = [eeprom EXCEPT ![ScanActiveSlot] = v]
        /\ wrote' = wrote \cup {ScanActiveSlot}
  /\ Advance
  /\ UNCHANGED <<kernal_num, kernal_addr, np_mode, restore_found,
                 restore_counter, key, scan_counter, quiet, scan_found, isrVars,
                 pin, dir, attached, runs, last>>
  /\ UNCHANGED <<boot, iter0, pre, cap, released, fired>>

\* variant: an out-of-range scan flag is replaced in memory only
S_scan_m ==
  /\ pc = "S_scan"
  /\ LET b == eeprom[ScanActiveSlot]
     IN scan_active' = (IF (b # 0) /\ (b # 1) THEN 1 ELSE b)
  /\ eeprom' = eeprom
  /\ wrote' = wrote
  /\ Advance
  /\ UNCHANGED <<kernal_num, kernal_addr, np_mode, restore_found,
                 restore_counter, key, scan_counter, quiet, scan_found, isrVars,
                 pin, dir, attached, runs, last>>
  /\ UNCHANGED <<boot, iter0, pre, cap, released, fired>>

\* lines 138-142
S_scan ==
  /\ pc = "S_scan"
  /\ LET b == eeprom[ScanActiveSlot]
     IN IF FlagOutOfRange(b)
          THEN /\ scan_active' = 1
               /\ eeprom' = [eeprom EXCEPT ![ScanActiveSlot] = 1]
               /\ wrote' = wrote \cup {ScanActiveSlot}
          ELSE /\ scan_active' = b
               /\ eeprom' = eeprom
               /\ wrote' = wrote
  /\ Advance
  /\ UNCHANGED <<kernal_num, kernal_addr, np_mode, restore_found,
                 restore_counter, key, scan_counter, quiet, scan_found, isrVars,
                 pin, dir, attached, runs, last>>
  /\ UNCHANGED <<boot, iter0, pre, cap, released, fired>>

\* variant: an out-of-range video mode is replaced in memory only
S_np_nosave ==
  /\ pc = "S_np"
  /\ LET b == eeprom[NPModeSlot]
     IN np_mode' = (IF (b # 0) /\ (b # 1) THEN 1 ELSE b)
  /\ eeprom' = eeprom
  /\ wrote' = wrote
  /\ Advance
  /\ UNCHANGED <<kernal_num, kernal_addr, restore_found, restore_counter,
                 key, scan_counter, quiet, scan_found, scan_active, isrVars,
                 pin, dir, attached, runs, last>>
  /\ UNCHANGED <<boot, iter0, pre, cap, released, fired>>

\* lines 144-148
S_np ==
  /\ pc = "S_np"
  /\ LET b == eeprom[NPModeSlot]
     IN IF FlagOutOfRange(b)
          THEN /\ np_mode' = 1
               /\ eeprom' = [eeprom EXCEPT ![NPModeSlot] = 1]
               /\ wrote' = wrote \cup {NPModeSlot}
          ELSE /\ np_mode' = b
               /\ eeprom' = eeprom
               /\ wrote' = wrote
  /\ Advance
  /\ UNCHANGED <<kernal_num, kernal_addr, restore_found, restore_counter,
                 key, scan_counter, quiet, scan_found, scan_active, isrVars, pin,
                 dir, attached, runs, last>>
  /\ UNCHANGED <<boot, iter0, pre, cap, released, fired>>

\* variant: setup() leaves the scan not found with scanning off too
S_count_watch ==
  /\ pc = "S_count"
  /\ scan_counter' = Default_Scan_Count
  /\ quiet' = 0
  /\ scan_found' = FALSE
  /\ Advance
  /\ UNCHANGED <<kernal_num, kernal_addr, np_mode, restore_found,
                 restore_counter, key, scan_active, isrVars, eeprom, pin,
                 dir, attached, runs, last>>
  /\ UNCHANGED histVars

\* lines 155-160
S_count ==
  /\ pc = "S_count"
  /\ scan_counter' = Default_Scan_Count
  /\ quiet' = 0
  /\ scan_found' = (scan_active = 0)
  /\ Advance
  /\ UNCHANGED <<kernal_num, kernal_addr, np_mode, restore_found,
                 restore_counter, key, scan_active, isrVars, eeprom, pin,
                 dir, attached, runs, last>>
  /\ UNCHANGED histVars

\* lines 162-163
S_attach ==
  /\ pc = "S_attach"
  /\ attached' = TRUE
  /\ Advance
  /\ UNCHANGED <<mainVars, quiet, scan_found, isrVars, eeprom, pin, dir, runs, last>>
  /\ boot' = {}
  /\ wrote' = {}
  /\ UNCHANGED <<iter0, pre, cap, released, fired>>

---------------------------------------------------------------------------
(* Pin sequences                                                           *)

\* variant: the host reset line stays an output while asserted
systemRESET_m ==
  /\ pc \in {"R1", "R2", "R3", "R4", "R5", "R6"}
  /\ CASE pc = "R1" -> pin' = [pin EXCEPT !.C64RES = "HIGH"] /\ dir' = dir
       [] pc = "R2" -> dir' = [dir EXCEPT !.C64RES = "OUTPUT"] /\ pin' = pin
       [] pc = "R3" -> pin' = [pin EXCEPT !.C64RES = "HIGH"] /\ dir' = dir
       [] pc = "R4" -> pin' = [pin EXCEPT !.EXROMRES = "LOW"] /\ dir' = dir
       [] pc = "R5" -> dir' = [dir EXCEPT !.EXROMRES = "OUTPUT"] /\ pin' = pin
       [] pc = "R6" -> pin' = [pin EXCEPT !.EXROMRES = "LOW"] /\ dir' = dir
  /\ Advance
  /\ UNCHANGED <<mainVars, quiet, scan_found, isrVars, eeprom, attached, runs, last>>
  /\ UNCHANGED histVars

\* systemRESET(), lines 170-177, one statement per step
systemRESET ==
  /\ pc \in {"R1", "R2", "R3", "R4", "R5", "R6"}
  /\ CASE pc = "R1" -> pin' = [pin EXCEPT !.C64RES = "HIGH"] /\ dir' = dir
       [] pc = "R2" -> dir' = [dir EXCEPT !.C64RES = "INPUT"] /\ pin' = pin
       [] pc = "R3" -> pin' = [pin EXCEPT !.C64RES = "HIGH"] /\ dir' = dir
       [] pc = "R4" -> pin' = [pin EXCEPT !.EXROMRES = "LOW"] /\ dir' = dir
       [] pc = "R5" -> dir' = [dir EXCEPT !.EXROMRES = "OUTPUT"] /\ pin' = pin
       [] pc = "R6" -> pin' = [pin EXCEPT !.EXROMRES = "LOW"] /\ dir' = dir
  /\ Advance
  /\ UNCHANGED <<mainVars, quiet, scan_found, isrVars, eeprom, attached, runs, last>>
  /\ UNCHANGED histVars

\* variant: the EXROM reset is not released
systemUNRESET_host ==
  /\ pc \in {"U0", "U1", "U2", "U3", "U4", "U5", "U6", "U7"}
  /\ CASE pc = "U0" -> pin' = pin /\ dir' = dir
       [] pc = "U1" -> pin' = [pin EXCEPT !.C64RES = "LOW"] /\ dir' = dir
       [] pc = "U2" -> dir' = [dir EXCEPT !.C64RES = "OUTPUT"] /\ pin' = pin
       [] pc = "U3" -> pin' = [pin EXCEPT !.C64RES = "LOW"] /\ dir' = dir
       [] pc = "U4" -> pin' = pin /\ dir' = dir
       [] pc = "U5" -> pin' = pin /\ dir' = dir
       [] pc = "U6" -> pin' = pin /\ dir' = dir
       [] pc = "U7" -> pin' = pin /\ dir' = dir
  /\ Advance
  /\ UNCHANGED <<mainVars, quiet, scan_found, isrVars, eeprom, attached, runs,
                 last>>
  /\ UNCHANGED histVars

\* variant: the EXROM reset is released first, the host reset after it
systemUNRESET_m ==
  /\ pc \in {"U0", "U1", "U2", "U3", "U4", "U5", "U6", "U7"}
  /\ CASE pc = "U0" -> pin' = pin /\ dir' = dir
       [] pc = "U1" -> pin' = [pin EXCEPT !.EXROMRES = "HIGH"] /\ dir' = dir
       [] pc = "U2" -> dir' = [dir EXCEPT !.EXROMRES = "INPUT"] /\ pin' = pin
       [] pc = "U3" -> pin' = [pin EXCEPT !.EXROMRES = "HIGH"] /\ dir' = dir
       [] pc = "U4" -> pin' = pin /\ dir' = dir
       [] pc = "U5" -> pin' = [pin EXCEPT !.C64RES = "LOW"] /\ dir' = dir
       [] pc = "U6" -> dir' = [dir EXCEPT !.C64RES = "OUTPUT"] /\ pin' = pin
       [] pc = "U7" -> pin' = [pin EXCEPT !.C64RES = "LOW"] /\ dir' = dir
  /\ Advance
  /\ UNCHANGED <<mainVars, quiet, scan_found, isrVars, eeprom, attached, runs, last>>
  /\ UNCHANGED histVars

\* systemUNRESET(), lines 182-192; U0 and U4 are the two delays
systemUNRESET ==
  /\ pc \in {"U0", "U1", "U2", "U3", "U4", "U5", "U6", "U7"}
  /\ CASE pc = "U0" -> pin' = pin /\ dir' = dir
       [] pc = "U1" -> pin' = [pin EXCEPT !.C64RES = "LOW"] /\ dir' = dir
       [] pc = "U2" -> dir' = [dir EXCEPT !.C64RES = "OUTPUT"] /\ pin' = pin
       [] pc = "U3" -> pin' = [pin EXCEPT !.C64RES = "LOW"] /\ dir' = dir
       [] pc = "U4" -> pin' = pin /\ dir' = dir
       [] pc = "U5" -> pin' = [pin EXCEPT !.EXROMRES = "HIGH"] /\ dir' = dir
       [] pc = "U6" -> dir' = [dir EXCEPT !.EXROMRES = "INPUT"] /\ pin' = pin
       [] pc = "U7" -> pin' = [pin EXCEPT !.EXROMRES = "HIGH"] /\ dir' = dir
  /\ Advance
  /\ UNCHANGED <<mainVars, quiet, scan_found, isrVars, eeprom, attached, runs, last>>
  /\ UNCHANGED histVars

\* variant: bit b of the address is taken from the other end (A13 gets bit 2)
AddrBit_m(addr, b) ==
  IF (addr \div (2 ^ (2 - b))) % 2 = 0 THEN "LOW" ELSE "HIGH"

\* level of address line number b (0, 1, 2) for address addr, lines 197-207
AddrBit(addr, b) == IF (addr \div (2 ^ b)) % 2 = 0 THEN "LOW" ELSE "HIGH"

\* variant: a set address bit flips its line instead of driving it HIGH
SetAddressBits_m ==
  /\ pc \in {"A1", "A2", "A3"}
  /\ LET Flip(l) == IF l = "LOW" THEN "HIGH" ELSE "LOW"
         Drive(l, v) == IF v = "HIGH" THEN Flip(l) ELSE l
     IN CASE pc = "A1" ->
               pin' = [pin EXCEPT !.A13 = Drive(@, AddrBit(kernal_addr, 0))]
          [] pc = "A2" ->
               pin' = [pin EXCEPT !.A14 = Drive(@, AddrBit(kernal_addr, 1))]
          [] pc = "A3" ->
               pin' = [pin EXCEPT !.A15 = Drive(@, AddrBit(kernal_addr, 2))]
  /\ Advance
  /\ UNCHANGED <<mainVars, quiet, scan_found, isrVars, eeprom, dir, attached, runs,
                 last>>
  /\ UNCHANGED histVars

\* SetAddressBits( kernal_addr ), lines 197-207, one pin per step
SetAddressBits ==
  /\ pc \in {"A1", "A2", "A3"}
  /\ CASE pc = "A1" -> pin' = [pin EXCEPT !.A13 = AddrBit(kernal_addr, 0)]
       [] pc = "A2" -> pin' = [pin EXCEPT !.A14 = AddrBit(kernal_addr, 1)]
       [] pc = "A3" -> pin' = [pin EXCEPT !.A15 = AddrBit(kernal_addr, 2)]
  /\ Advance
  /\ UNCHANGED <<mainVars, quiet, scan_found, isrVars, eeprom, dir, attached, runs,
                 last>>
  /\ UNCHANGED histVars

\* variant: the NTSC pulse leaves NeN HIGH
SetVideoBits_m ==
  /\ pc \in {"V1", "V2", "V3", "V4"}
  /\ IF np_mode = 0
       THEN CASE pc = "V1" -> pin' = pin
              [] pc = "V2" -> pin' = [pin EXCEPT !.PeN = "HIGH"]
              [] pc = "V3" -> pin' = pin
              [] pc = "V4" -> pin' = [pin EXCEPT !.PeN = "LOW"]
       ELSE CASE pc = "V1" -> pin' = [pin EXCEPT !.NeN = "HIGH"]
              [] pc = "V2" -> pin' = [pin EXCEPT !.PeN = "LOW"]
              [] pc = "V3" -> pin' = pin
              [] pc = "V4" -> pin' = pin
  /\ Advance
  /\ UNCHANGED <<mainVars, quiet, scan_found, isrVars, eeprom, dir, attached, runs,
                 last>>
  /\ UNCHANGED histVars

\* SetVideoBits( np_mode ), lines 212-222; V3 is the 500 ms pulse
SetVideoBits ==
  /\ pc \in {"V1", "V2", "V3", "V4"}
  /\ IF np_mode = 0
       THEN CASE pc = "V1" -> pin' = [pin EXCEPT !.NeN = "LOW"]
              [] pc = "V2" -> pin' = [pin EXCEPT !.PeN = "HIGH"]
              [] pc = "V3" -> pin' = pin
              [] pc = "V4" -> pin' = [pin EXCEPT !.PeN = "LOW"]
       ELSE CASE pc = "V1" -> pin' = [pin EXCEPT !.NeN = "HIGH"]
              [] pc = "V2" -> pin' = [pin EXCEPT !.PeN = "LOW"]
              [] pc = "V3" -> pin' = pin
              [] pc = "V4" -> pin' = [pin EXCEPT !.NeN = "LOW"]
  /\ Advance
  /\ UNCHANGED <<mainVars, quiet, scan_found, isrVars, eeprom, dir, attached, runs,
                 last>>
  /\ UNCHANGED histVars

\* variant: delay( 2000 ) does not return
Delay_m ==
  /\ pc \in {"D_settle", "D_final"}
  /\ UNCHANGED <<pc, ctx>>
  /\ UNCHANGED <<mainVars, quiet, scan_found, isrVars, eeprom, pin, dir, attached,
                 runs, last>>
  /\ UNCHANGED histVars

\* delay( 2000 ) at lines 229, 231, 244, 246 and 316
Delay ==
  /\ pc \in {"D_settle", "D_final"}
  /\ Advance
  /\ UNCHANGED <<mainVars, quiet, scan_found, isrVars, eeprom, pin, dir, attached,
                 runs, last>>
  /\ UNCHANGED histVars

\* variant: the reset sequence always leaves the watchdog watching
Bookkeeping_watch ==
  /\ pc = "B"
  /\ scan_counter' = Default_Scan_Count
  /\ quiet' = 0
  /\ scan_found' = FALSE
  /\ Advance
  /\ UNCHANGED <<kernal_num, kernal_addr, np_mode, restore_found,
                 restore_counter, key, scan_active, isrVars, eeprom, pin,
                 dir, attached, runs, last>>
  /\ UNCHANGED histVars

\* variant: the countdown is not rearmed after the reset sequence
Bookkeeping_m ==
  /\ pc = "B"
  /\ scan_counter' = scan_counter
  /\ quiet' = quiet
  /\ scan_found' = (scan_active # 1)
  /\ Advance
  /\ UNCHANGED <<kernal_num, kernal_addr, np_mode, restore_found,
                 restore_counter, key, scan_active, isrVars, eeprom, pin,
                 dir, attached, runs, last>>
  /\ UNCHANGED histVars

\* lines 232-237 of SwitchKernal(), 247-252 of SwitchVideo()
Bookkeeping ==
  /\ pc = "B"
  /\ scan_counter' = Default_Scan_Count
  /\ quiet' = 0
  /\ scan_found' = (scan_active # 1)
  /\ Advance
  /\ UNCHANGED <<kernal_num, kernal_addr, np_mode, restore_found,
                 restore_counter, key, scan_active, isrVars, eeprom, pin,
                 dir, attached, runs, last>>
  /\ UNCHANGED histVars

\* variant: the long-press branch sets scan_found as SwitchKernal does
LP_book_sw ==
  /\ pc = "LP_book"
  /\ scan_counter' = Default_Scan_Count
  /\ quiet' = 0
  /\ scan_found' = (scan_active # 1)
  /\ Advance
  /\ UNCHANGED <<kernal_num, kernal_addr, np_mode, restore_found,
                 restore_counter, key, scan_active, isrVars, eeprom, pin,
                 dir, attached, runs, last>>
  /\ UNCHANGED histVars

\* variant: the long-press branch discards the pending event
LP_book_m ==
  /\ pc = "LP_book"
  /\ scan_counter' = Default_Scan_Count
  /\ quiet' = 0
  /\ scan_found' = FALSE
  /\ numPressed' = FALSE
  /\ Advance
  /\ UNCHANGED <<kernal_num, kernal_addr, np_mode, restore_found,
                 restore_counter, key, scan_active, numOdd, colData, eeprom,
                 pin, dir, attached, runs, last>>
  /\ UNCHANGED histVars

\* lines 314-315 of the RESTORE long-press branch
LP_book ==
  /\ pc = "LP_book"
  /\ scan_counter' = Default_Scan_Count
  /\ quiet' = 0
  /\ scan_found' = FALSE
  /\ Advance
  /\ UNCHANGED <<kernal_num, kernal_addr, np_mode, restore_found,
                 restore_counter, key, scan_active, isrVars, eeprom, pin,
                 dir, attached, runs, last>>
  /\ UNCHANGED histVars

---------------------------------------------------------------------------
(* Interrupt handlers (lines 256-277)                                      *)

\* variant: only the all-low snapshot is filtered out
NumberSnapshot_idle(c) == (c # 0)

\* variant: only the idle snapshot is filtered out
NumberSnapshot_m(c) == (c # 31)

\* line 261 / 273: the snapshot shows a number key
NumberSnapshot(c) == (c # 31) /\ (c # 0)

\* variant: a handler that captures a snapshot rearms the scan countdown too
RowISR_rearm(odd) ==
  /\ attached
  /\ IF ~numPressed
       THEN \E c \in Columns :
              /\ colData' = c
              /\ scan_found' = TRUE
              /\ scan_counter' = Default_Scan_Count
              /\ quiet' = 0
              /\ numOdd' = odd
              /\ numPressed' = NumberSnapshot(c)
              /\ cap' = (IF NumberSnapshot(c)
                           THEN {[cols |-> c, odd |-> odd, at |-> ctx,
                                  dropped |-> FALSE]}
                           ELSE cap)
       ELSE /\ cap' = {[e EXCEPT !.dropped = TRUE] : e \in cap}
            /\ UNCHANGED <<colData, scan_found, scan_counter, quiet, numOdd,
                           numPressed>>
  /\ UNCHANGED <<kernal_num, kernal_addr, np_mode, restore_found,
                 restore_counter, key, scan_active, eeprom, pin, dir,
                 attached, pc, ctx, runs, last>>
  /\ UNCHANGED <<boot, wrote, iter0, pre, released, fired>>

\* variant: a handler that finds an event pending overwrites its payload
RowISR_m(odd) ==
  /\ attached
  /\ \E c \in Columns :
       /\ colData' = c
       /\ scan_found' = TRUE
       /\ numOdd' = odd
       /\ numPressed' = (numPressed \/ NumberSnapshot(c))
       /\ cap' = (IF numPressed
                    THEN {[e EXCEPT !.dropped = TRUE] : e \in cap}
                    ELSE IF NumberSnapshot(c)
                           THEN {[cols |-> c, odd |-> odd, at |-> ctx,
                                  dropped |-> FALSE]}
                           ELSE cap)
  /\ UNCHANGED <<mainVars, quiet, eeprom, pin, dir, attached, pc, ctx, runs, last>>
  /\ UNCHANGED <<boot, wrote, iter0, pre, released, fired>>

\* body shared by the two handlers; odd is the value written to numOdd and
\* cols the snapshots PINC & 0x1F may give.
\* cap records the snapshot and row that marked the event pending, the
\* call site the main thread was in, and whether a later interrupt found
\* the event pending.
RowISROver(odd, cols) ==
  /\ attached
  /\ IF ~numPressed
       THEN \E c \in cols :
              /\ colData' = c
              /\ scan_found' = TRUE
              /\ numOdd' = odd
              /\ numPressed' = NumberSnapshot(c)
              /\ cap' = (IF NumberSnapshot(c)
                           THEN {[cols |-> c, odd |-> odd, at |-> ctx,
                                  dropped |-> FALSE]}
                           ELSE cap)
       ELSE /\ cap' = {[e EXCEPT !.dropped = TRUE] : e \in cap}
            /\ UNCHANGED <<colData, scan_found, numOdd, numPressed>>
  /\ UNCHANGED <<mainVars, quiet, eeprom, pin, dir, attached, pc, ctx, runs, last>>
  /\ UNCHANGED <<boot, wrote, iter0, pre, released, fired>>

\* the handlers of the full model, over the sample snapshots
RowISR(odd) == RowISROver(odd, Columns)

\* lines 256-265
ISR_Row0 == RowISR(TRUE)

\* lines 268-277
ISR_Row3 == RowISR(FALSE)

---------------------------------------------------------------------------
(* loop(): scan watchdog (lines 282-302)                                   *)


\* variant: the fallback to Kernal 1 falls back to PAL too
WatchdogRecover_pal ==
  /\ kernal_num' = 1
  /\ eeprom' = [eeprom EXCEPT ![KernalSlot] = 1, ![NPModeSlot] = 0]
  /\ kernal_addr' = 0
  /\ np_mode' = 0
  /\ Call("recover")
  /\ UNCHANGED <<restore_found, restore_counter, key, scan_counter, quiet,
                 scan_found, scan_active, isrVars, pin, dir, attached>>

\* variant: the fallback to Kernal 1 is not saved in the EEPROM
WatchdogRecover_m ==
  /\ kernal_num' = 1
  /\ eeprom' = eeprom
  /\ kernal_addr' = 0
  /\ Call("recover")
  /\ UNCHANGED <<np_mode, restore_found, restore_counter, key, scan_counter, quiet,
                 scan_found, scan_active, isrVars, pin, dir, attached>>

\* lines 292-295: fall back to Kernal 1
WatchdogRecover ==
  /\ kernal_num' = 1
  /\ eeprom' = [eeprom EXCEPT ![KernalSlot] = 1]
  /\ kernal_addr' = 0
  /\ Call("recover")
  /\ UNCHANGED <<np_mode, restore_found, restore_counter, key, scan_counter, quiet,
                 scan_found, scan_active, isrVars, pin, dir, attached>>


\* variant: with scanning off the elapsed countdown is rearmed and the scan
\* is left not found
WatchdogInert_watch ==
  /\ scan_counter' = Default_Scan_Count
  /\ quiet' = 0
  /\ scan_found' = FALSE
  /\ Advance
  /\ UNCHANGED <<kernal_num, kernal_addr, np_mode, restore_found,
                 restore_counter, key, scan_active, isrVars, eeprom, pin,
                 dir, attached, runs, last>>

\* variant: the elapsed countdown falls back to Kernal 1 with scanning off too
WatchdogInert_m ==
  /\ kernal_num' = 1
  /\ eeprom' = [eeprom EXCEPT ![KernalSlot] = 1]
  /\ kernal_addr' = 0
  /\ Call("recover")
  /\ UNCHANGED <<np_mode, restore_found, restore_counter, key, scan_counter, quiet,
                 scan_found, scan_active, isrVars, pin, dir, attached>>

\* lines 297-298: scanning is off, rearm and mark the scan found
WatchdogInert ==
  /\ scan_counter' = Default_Scan_Count
  /\ quiet' = 0
  /\ scan_found' = TRUE
  /\ Advance
  /\ UNCHANGED <<kernal_num, kernal_addr, np_mode, restore_found,
                 restore_counter, key, scan_active, isrVars, eeprom, pin,
                 dir, attached, runs, last>>

\* variant: the recovery starts one tick before the countdown has elapsed
L_wd_early ==
  /\ pc = "L_wd"
  /\ UNCHANGED <<boot, wrote, pre, cap, released, fired>>
  /\ IF scan_found
       THEN /\ iter0' = {[sample |-> "none"] @@ Snapshot}
            /\ Advance
            /\ UNCHANGED <<mainVars, quiet, scan_found, isrVars, eeprom, pin,
                           dir, attached, runs, last>>
       ELSE \E columns \in Columns :
              /\ iter0' = {[sample |-> IF columns # 31 THEN "active"
                                                       ELSE "idle"]
                             @@ Snapshot}
              /\ IF columns # 31
                   THEN /\ scan_found' = TRUE
                        /\ Advance
                        /\ UNCHANGED <<mainVars, quiet, isrVars, eeprom, pin,
                                       dir, attached, runs, last>>
                   ELSE IF scan_counter > 1
                     THEN /\ scan_counter' = scan_counter - 1
                          /\ quiet' = quiet + 1
                          /\ Advance
                          /\ UNCHANGED <<kernal_num, kernal_addr, np_mode,
                                         restore_found, restore_counter, key,
                                         scan_found, scan_active, isrVars,
                                         eeprom, pin, dir, attached, runs,
                                         last>>
                     ELSE IF scan_active = 1
                       THEN WatchdogRecover
                       ELSE WatchdogInert

\* variant: the countdown goes on while column activity is sampled
L_wd_m ==
  /\ pc = "L_wd"
  /\ UNCHANGED <<boot, wrote, pre, cap, released, fired>>
  /\ IF scan_found
       THEN /\ iter0' = {[sample |-> "none"] @@ Snapshot}
            /\ Advance
            /\ UNCHANGED <<mainVars, quiet, scan_found, isrVars, eeprom, pin, dir,
                           attached, runs, last>>
       ELSE \E columns \in Columns :
              /\ iter0' = {[sample |-> IF columns # 31 THEN "active"
                                                       ELSE "idle"]
                             @@ Snapshot}
              /\ IF scan_counter > 0
                   THEN /\ scan_counter' = scan_counter - 1
                        /\ quiet' = quiet + 1
                        /\ scan_found' = (columns # 31)
                        /\ Advance
                        /\ UNCHANGED <<kernal_num, kernal_addr, np_mode,
                                       restore_found, restore_counter, key,
                                       scan_active, isrVars, eeprom, pin,
                                       dir, attached, runs, last>>
                   ELSE IF scan_active = 1
                     THEN WatchdogRecover
                     ELSE WatchdogInert

\* lines 282-302; iter0 records the state the iteration starts from and,
\* until the RESTORE sample, what the read of the columns at line 283 gave,
\* if it was made
L_wd ==
  /\ pc = "L_wd"
  /\ UNCHANGED <<boot, wrote, pre, cap, released, fired>>
  /\ IF scan_found
       THEN /\ iter0' = {[sample |-> "none"] @@ Snapshot}
            /\ Advance
            /\ UNCHANGED <<mainVars, quiet, scan_found, isrVars, eeprom, pin, dir,
                           attached, runs, last>>
       ELSE \E columns \in Columns :
              /\ iter0' = {[sample |-> IF columns # 31 THEN "active"
                                                       ELSE "idle"]
                             @@ Snapshot}
              /\ IF columns # 31
                   THEN /\ scan_found' = TRUE
                        /\ Advance
                        /\ UNCHANGED <<mainVars, quiet, isrVars, eeprom, pin, dir,
                                       attached, runs, last>>
                   ELSE IF scan_counter > 0
                     THEN /\ scan_counter' = scan_counter - 1
                          /\ quiet' = quiet + 1
                          /\ Advance
                          /\ UNCHANGED <<kernal_num, kernal_addr, np_mode,
                                         restore_found, restore_counter, key,
                                         scan_found, scan_active, isrVars,
                                         eeprom, pin, dir, attached, runs,
                                         last>>
                     ELSE IF scan_active = 1
                       THEN WatchdogRecover
                       ELSE WatchdogInert

---------------------------------------------------------------------------
(* loop(): RESTORE key (lines 305-319)                                     *)

\* variant: a tick sampled not held leaves the countdown where it is
L_restore_m ==
  /\ pc = "L_restore"
  /\ \E level \in {"LOW", "HIGH"} :
       IF level = "HIGH"
         THEN /\ restore_found' = FALSE
              /\ released' = TRUE
              /\ fired' = FALSE
              /\ restore_counter' = restore_counter
              /\ Advance
              /\ runs' = runs /\ last' = last
         ELSE /\ restore_found' = TRUE
              /\ released' = released
              /\ IF restore_counter > 0
                   THEN /\ restore_counter' = restore_counter - 1
                        /\ Advance
                        /\ runs' = runs /\ last' = last
                        /\ fired' = fired
                   ELSE /\ restore_counter' = restore_counter
                        /\ fired' = TRUE
                        /\ Call("longpress")
  /\ UNCHANGED <<kernal_num, kernal_addr, np_mode, key, scan_counter, quiet,
                 scan_found, scan_active, isrVars, eeprom, pin, dir,
                 attached>>
  /\ iter0' = {[s EXCEPT !.sample = "past"] : s \in iter0}
  /\ UNCHANGED <<boot, wrote, pre, cap>>

\* lines 305-319; level is digitalRead( RESTOREPin )
L_restore ==
  /\ pc = "L_restore"
  /\ \E level \in {"LOW", "HIGH"} :
       IF level = "HIGH"
         THEN /\ restore_found' = FALSE
              /\ released' = TRUE
              /\ fired' = FALSE
              /\ restore_counter' = Default_Restore_Count
              /\ Advance
              /\ runs' = runs /\ last' = last
         ELSE /\ restore_found' = TRUE
              /\ released' = released
              /\ IF restore_counter > 0
                   THEN /\ restore_counter' = restore_counter - 1
                        /\ Advance
                        /\ runs' = runs /\ last' = last
                        /\ fired' = fired
                   ELSE /\ restore_counter' = restore_counter
                        /\ fired' = TRUE
                        /\ Call("longpress")
  /\ UNCHANGED <<kernal_num, kernal_addr, np_mode, key, scan_counter, quiet,
                 scan_found, scan_active, isrVars, eeprom, pin, dir,
                 attached>>
  /\ iter0' = {[s EXCEPT !.sample = "past"] : s \in iter0}
  /\ UNCHANGED <<boot, wrote, pre, cap>>

---------------------------------------------------------------------------
(* loop(): number key (lines 322-364)                                      *)

BitClear(c, b) == (c \div (2 ^ b)) % 2 = 0

\* variant: the columns are tested in the order of their bits
DecodeColumn_m(c, k0) ==
  IF BitClear(c, 0) THEN 3
  ELSE IF BitClear(c, 1) THEN 5
  ELSE IF BitClear(c, 2) THEN 7
  ELSE IF BitClear(c, 3) THEN 9
  ELSE IF BitClear(c, 4) THEN 1
  ELSE k0

\* lines 323-327: the odd digit of the first column found low; k0 is the
\* value key holds when no column is low
DecodeColumn(c, k0) ==
  IF BitClear(c, 4) THEN 1
  ELSE IF BitClear(c, 0) THEN 3
  ELSE IF BitClear(c, 1) THEN 5
  ELSE IF BitClear(c, 2) THEN 7
  ELSE IF BitClear(c, 3) THEN 9
  ELSE k0

\* lines 323-331
DecodeKey(c, odd, k0) ==
  LET k1 == DecodeColumn(c, k0)
      k2 == IF ~odd THEN Byte(k1 + 1) ELSE k1
  IN IF k2 = 10 THEN 0 ELSE k2


\* variant: the address bits are the Kernal number itself
KeyDefault_m(k) ==
  /\ scan_active' = 1
  /\ kernal_num' = k
  /\ kernal_addr' = Byte(k)
  /\ eeprom' = [eeprom EXCEPT ![KernalSlot] = k, ![ScanActiveSlot] = 1]
  /\ np_mode' = np_mode
  /\ Call("chord")

\* lines 335-342: keys 1-8
KeyDefault(k) ==
  /\ scan_active' = 1
  /\ kernal_num' = k
  /\ kernal_addr' = Byte(k + 255)
  /\ eeprom' = [eeprom EXCEPT ![KernalSlot] = k, ![ScanActiveSlot] = 1]
  /\ np_mode' = np_mode
  /\ Call("chord")


\* variant: key 0 does not save the scan status
KeyZero_m ==
  /\ scan_active' = 0
  /\ kernal_num' = 1
  /\ kernal_addr' = 0
  /\ eeprom' = [eeprom EXCEPT ![KernalSlot] = 1]
  /\ np_mode' = np_mode
  /\ Call("chord")

\* lines 343-350: key 0
KeyZero ==
  /\ scan_active' = 0
  /\ kernal_num' = 1
  /\ kernal_addr' = 0
  /\ eeprom' = [eeprom EXCEPT ![KernalSlot] = 1, ![ScanActiveSlot] = 0]
  /\ np_mode' = np_mode
  /\ Call("chord")


\* variant: key 9 always selects PAL
KeyNine_pal ==
  /\ np_mode' = 0
  /\ eeprom' = [eeprom EXCEPT ![NPModeSlot] = 0]
  /\ UNCHANGED <<scan_active, kernal_num, kernal_addr>>
  /\ Call("video")

\* variant: key 9 saves the video mode before flipping it
KeyNine_m ==
  /\ np_mode' = (IF np_mode = 1 THEN 0 ELSE 1)
  /\ eeprom' = [eeprom EXCEPT ![NPModeSlot] = np_mode]
  /\ UNCHANGED <<scan_active, kernal_num, kernal_addr>>
  /\ Call("video")

\* lines 351-359: key 9
KeyNine ==
  /\ np_mode' = (IF np_mode = 1 THEN 0 ELSE 1)
  /\ eeprom' = [eeprom EXCEPT ![NPModeSlot] = IF np_mode = 1 THEN 0 ELSE 1]
  /\ UNCHANGED <<scan_active, kernal_num, kernal_addr>>
  /\ Call("video")


\* variant: the number key is accepted without RESTORE
ChordValid_m(k) == (k >= 0) /\ (k <= 9)

\* line 333: RESTORE + number key 0-9
ChordValid(k) == restore_found /\ (k >= 0) /\ (k <= 9)

L_key ==
  /\ pc = "L_key"
  /\ pre' = (IF numPressed THEN {Snapshot} ELSE pre)
  /\ UNCHANGED <<boot, wrote, iter0, cap, released, fired>>
  /\ IF numPressed
       THEN LET k == DecodeKey(colData, numOdd, key)
            IN /\ key' = k
               /\ IF ChordValid(k)
                    THEN CASE k = 0 -> KeyZero
                           [] k = 9 -> KeyNine
                           [] OTHER -> KeyDefault(k)
                    ELSE /\ Advance
                         /\ UNCHANGED <<kernal_num, kernal_addr, np_mode,
                                        scan_active, eeprom, runs, last>>
       ELSE /\ Advance
            /\ UNCHANGED <<kernal_num, kernal_addr, np_mode, scan_active,
                           eeprom, runs, last, key>>
  /\ UNCHANGED <<restore_found, restore_counter, scan_counter, quiet, scan_found,
                 isrVars, pin, dir, attached>>

\* lines 363-365
L_end ==
  /\ pc = "L_end"
  /\ key' = 128
  /\ numPressed' = FALSE
  /\ runs' = <<>>
  /\ iter0' = {}
  /\ pre' = {}
  /\ cap' = {}
  /\ last' = (IF restore_found /\ key \in 0..9
                THEN {[d |-> key,
                       before |-> IF key = 9 THEN pre ELSE {},
                       after |-> Snapshot]}
                ELSE last)
  /\ boot' = boot
  /\ wrote' = wrote
  /\ released' = released
  /\ fired' = fired
  /\ Advance
  /\ UNCHANGED <<kernal_num, kernal_addr, np_mode, restore_found,
                 restore_counter, scan_counter, quiet, scan_found, scan_active,
                 numOdd, colData, eeprom, pin, dir, attached>>

---------------------------------------------------------------------------
Next ==
  \/ S_kernal \/ S_addr \/ S_scan \/ S_np \/ S_count \/ S_attach
  \/ systemRESET \/ systemUNRESET \/ SetAddressBits \/ SetVideoBits
  \/ Delay \/ Bookkeeping \/ LP_book
  \/ L_wd \/ L_restore \/ L_key \/ L_end
  \/ ISR_Row0 \/ ISR_Row3

Spec == Init /\ [][Next]_vars

\* the steps of the main thread: setup(), then loop() over and over
MainNext ==
  \/ S_kernal \/ S_addr \/ S_scan \/ S_np \/ S_count \/ S_attach
  \/ systemRESET \/ systemUNRESET \/ SetAddressBits \/ SetVideoBits
  \/ Delay \/ Bookkeeping \/ LP_book
  \/ L_wd \/ L_restore \/ L_key \/ L_end

\* The key path alone, over every 5-bit snapshot: power-on with Kernal 1,
\* scanning off and NTSC stored, RESTORE never held, so that loop() runs no
\* reset sequence and every iteration is watchdog (inert), RESTORE sample,
\* key processing, clear.
KeyInit == Init /\ eeprom = [i \in 0..2 |-> IF i = ScanActiveSlot THEN 0 ELSE 1]

KeyNext ==
  \/ S_kernal \/ S_addr \/ S_scan \/ S_np \/ S_count \/ S_attach
  \/ systemRESET \/ systemUNRESET \/ SetAddressBits \/ SetVideoBits
  \/ L_wd
  \/ (L_restore /\ ~restore_found')
  \/ L_key \/ L_end
  \/ RowISROver(TRUE, AllColumns)
  \/ RowISROver(FALSE, AllColumns)

KeySpec == KeyInit /\ [][KeyNext]_vars

\* Column snapshots of the specification with fairness: what loop() goes
\* on to do depends on the snapshot only through the kind of key decoded
\* from it, and these give no number key (0x1F), a Kernal key (0x0F: 1 or
\* 2), and the video key and the scan-off key (0x17: 9 or 0).
LiveColumns == {31, 15, 23}

FairNext ==
  \/ S_kernal \/ S_addr \/ S_scan \/ S_np \/ S_count \/ S_attach
  \/ systemRESET \/ systemUNRESET \/ SetAddressBits \/ SetVideoBits
  \/ Delay \/ Bookkeeping \/ LP_book
  \/ L_wd \/ L_restore \/ L_key \/ L_end
  \/ (ISR_Row0 /\ colData' \in LiveColumns)
  \/ (ISR_Row3 /\ colData' \in LiveColumns)

\* An interrupt handler returns to the main thread, and the main thread
\* always has a next statement: the main thread keeps taking steps.
FairSpec == Init /\ [][FairNext]_vars /\ WF_vars(MainNext)

---------------------------------------------------------------------------
(* Vocabulary of the properties                                            *)

Selection == kernal_num
ScanActive == scan_active = 1
VideoMode == np_mode
HostResetAsserted == pin.C64RES = "HIGH"
\* the EXROM reset line is driven LOW (lines 175-177); as an input it floats
PeripheralResetAsserted == dir.EXROMRES = "OUTPUT" /\ pin.EXROMRES = "LOW"
SelectLines == <<pin.A13, pin.A14, pin.A15, pin.NeN, pin.PeN>>
Persisted == <<eeprom[0], eeprom[1], eeprom[2]>>

\* the main thread has just finished handling number key d with RESTORE held
ChordDone(d) == pc = "L_end" /\ restore_found /\ key = d

\* number of reset sequences of call site c started in this iteration
RunsOf(c) == Cardinality({i \in 1..Len(runs) : runs[i] = c})

\* a step of the main thread
MainStep == (pc' # pc) \/ (ctx' # ctx)

---------------------------------------------------------------------------
(* C1: chord gating                                                        *)

\* C1 (as stated): at the end of a loop iteration that consumed a key event
\* while RESTORE was sampled not held, Selection, ScanActive, VideoMode, the
\* persisted bytes are what they were when the iteration began, and the key
\* started no reset sequence.
C1_IterationUnchanged ==
  (pc = "L_end" /\ key # 128 /\ ~restore_found) =>
    /\ \A s \in iter0 :
         /\ Selection = s.sel
         /\ scan_active = s.scan
         /\ VideoMode = s.np
         /\ eeprom = s.store
    /\ RunsOf("chord") = 0 /\ RunsOf("video") = 0

\* C1 (amended): the key processing of an iteration (lines 322-364), taking
\* up a pending event while RESTORE was sampled not held, changes none of
\* Selection, ScanActive, VideoMode, the persisted bytes and the output
\* pins, starts no reset sequence, decodes a digit 0-9 and clears the
\* pending flag at the end of the iteration.
C1_KeyStepUnchanged ==
  [][ /\ (pc = "L_key" /\ numPressed /\ ~restore_found /\ MainStep) =>
           /\ pc' = "L_end" /\ ctx' = "loop"
           /\ key' \in 0..9
           /\ runs' = runs
           /\ <<kernal_num, scan_active, np_mode, eeprom, pin, dir>>'
                = <<kernal_num, scan_active, np_mode, eeprom, pin, dir>>
      /\ (pc = "L_end" /\ ~restore_found /\ MainStep) =>
           /\ pc' = "L_wd" /\ ctx' = "loop"
           /\ ~numPressed'
           /\ <<kernal_num, scan_active, np_mode, eeprom, pin, dir>>'
                = <<kernal_num, scan_active, np_mode, eeprom, pin, dir>>
    ]_vars

\* an event for digit 5 was taken up without RESTORE and discarded
C1_Witness ==
  /\ pc = "L_end" /\ key = 5 /\ ~restore_found /\ numPressed
  /\ \A s \in pre : s.sel = Selection /\ s.sel = 3

---------------------------------------------------------------------------
(* C2: RESTORE + 1..8                                                      *)

\* C2: when the main thread has handled a pending event that decodes to d in
\* 1..8 with RESTORE held, Selection = d, ScanActive is true, EEPROM cell 0
\* holds d and cell 1 holds 1, exactly one reset sequence was started for the
\* key and the three address lines carry d - 1.
C2_ChordSelects ==
  \A d \in 1..8 :
    ChordDone(d) =>
      /\ Selection = d
      /\ scan_active = 1
      /\ eeprom[KernalSlot] = d
      /\ eeprom[ScanActiveSlot] = 1
      /\ RunsOf("chord") = 1 /\ RunsOf("video") = 0
      /\ runs[Len(runs)] = "chord"
      /\ AddrLines = d - 1
      /\ pin.A13 = (IF (d - 1) % 2 = 1 THEN "HIGH" ELSE "LOW")
      /\ pin.A14 = (IF ((d - 1) \div 2) % 2 = 1 THEN "HIGH" ELSE "LOW")
      /\ pin.A15 = (IF (d - 1) \div 4 = 1 THEN "HIGH" ELSE "LOW")

\* RESTORE + 5 handled, coming from Kernal 1 with scanning off
C2_Witness ==
  /\ ChordDone(5) /\ Selection = 5 /\ AddrLines = 4
  /\ \A s \in pre : s.sel = 1 /\ s.scan = 0

---------------------------------------------------------------------------
(* C3: RESTORE + 0                                                         *)

\* C3: when the main thread has handled a pending event that decodes to 0
\* with RESTORE held, Selection = 1, ScanActive is false, EEPROM cell 0 holds
\* 1 and cell 1 holds 0, VideoMode is what it was before the key was taken
\* up, exactly one reset sequence was started for the key and the address
\* lines carry 0.
C3_ChordZero ==
  ChordDone(0) =>
    /\ Selection = 1
    /\ scan_active = 0
    /\ eeprom[KernalSlot] = 1
    /\ eeprom[ScanActiveSlot] = 0
    /\ \A s \in pre : VideoMode = s.np /\ eeprom[NPModeSlot] = s.store[2]
    /\ pre # {}
    /\ RunsOf("chord") = 1 /\ RunsOf("video") = 0
    /\ runs[Len(runs)] = "chord"
    /\ AddrLines = 0

\* RESTORE + 0 handled, coming from Kernal 6 with scanning on
C3_Witness ==
  /\ ChordDone(0) /\ Selection = 1 /\ AddrLines = 0
  /\ \A s \in pre : s.sel = 6 /\ s.scan = 1 /\ s.addr = 5

---------------------------------------------------------------------------
(* C4: RESTORE + 9                                                         *)

\* C4: when the main thread has handled a pending event that decodes to 9
\* with RESTORE held, VideoMode is flipped (1 to 0, 0 to 1) against its value
\* before the key was taken up, EEPROM cell 2 holds the new value, and
\* Selection, ScanActive, EEPROM cells 0 and 1 and the three address lines
\* are what they were before.
C4_ChordNine ==
  ChordDone(9) =>
    /\ pre # {}
    /\ \A s \in pre :
         /\ s.np \in {0, 1}
         /\ VideoMode = 1 - s.np
         /\ eeprom[NPModeSlot] = VideoMode
         /\ Selection = s.sel
         /\ scan_active = s.scan
         /\ eeprom[KernalSlot] = s.store[0]
         /\ eeprom[ScanActiveSlot] = s.store[1]
         /\ AddrLines = s.addr
         /\ RunsOf("video") = 1 /\ RunsOf("chord") = 0

\* RESTORE + 9 handled on Kernal 4, NTSC to PAL
C4_Witness ==
  /\ ChordDone(9) /\ VideoMode = 0 /\ Selection = 4 /\ AddrLines = 3
  /\ \A s \in pre : s.np = 1

---------------------------------------------------------------------------
(* C5: watchdog recovery                                                   *)

\* C5: a loop tick of the watchdog taken with ScanActive true, the watchdog
\* WATCHING (scan_found false), ScanCounter at zero and no column activity
\* observed (scan_found still false after the tick) forces Selection to 1,
\* rewrites EEPROM cell 0 with 1 and starts a reset sequence; every tick
\* before it with no activity counts ScanCounter down by one; and when that
\* reset sequence returns the address lines carry 0.
C5_WatchdogRecovery ==
  [][ /\ ( /\ pc = "L_wd" /\ MainStep
           /\ scan_active = 1 /\ ~scan_found /\ ~scan_found' ) =>
             IF scan_counter > 0
               THEN /\ scan_counter' = scan_counter - 1
                    /\ ctx' = "loop"
               ELSE /\ Selection' = 1
                    /\ eeprom'[KernalSlot] = 1
                    /\ ctx' = "recover" /\ pc' = "R1"
                    /\ runs' = <<"recover">>
      /\ (ctx = "recover" /\ ctx' = "loop") =>
           /\ pc' = "L_restore"
           /\ Selection' = 1
           /\ eeprom'[KernalSlot] = 1
           /\ AddrLines' = 0
    ]_vars

\* the watchdog has fallen back from Kernal 7 and its reset sequence is over
C5_Witness ==
  /\ pc = "L_restore" /\ runs = <<"recover">>
  /\ Selection = 1 /\ eeprom[KernalSlot] = 1 /\ AddrLines = 0
  /\ \A s \in iter0 : s.sel = 7 /\ s.store[0] = 7 /\ s.addr = 6

---------------------------------------------------------------------------
(* C6: no recovery with scanning off                                       *)

\* C6: while ScanActive is false, a loop tick of the watchdog changes
\* neither Selection nor the EEPROM nor any pin and starts no reset
\* sequence, and no watchdog reset sequence is ever in progress.
C6_NoRecoveryWhenInactive ==
  [][ /\ (scan_active # 1 /\ pc = "L_wd" /\ MainStep) =>
           /\ Selection' = Selection
           /\ eeprom' = eeprom
           /\ pin' = pin /\ dir' = dir
           /\ ctx' = "loop" /\ pc' = "L_restore"
           /\ runs' = runs
      /\ (ctx' = "recover") => (scan_active' = 1)
    ]_vars

\* scanning off, the watchdog WATCHING (after a long press) and the countdown
\* elapsed: the next watchdog tick takes the branch of lines 296-299
C6_Witness ==
  /\ pc = "L_wd" /\ scan_active = 0 /\ ~scan_found /\ scan_counter = 0

---------------------------------------------------------------------------
(* C7: Selection in range                                                  *)

\* C7: in every state after the boot-time validation of the Kernal number,
\* Selection is in 1..8.
C7_SelectionInRange == (pc # "S_kernal") => (Selection \in 1..8)

\* an iteration in which the watchdog fell back and RESTORE + 8 followed
C7_Witness ==
  /\ ChordDone(8) /\ Selection = 8 /\ RunsOf("recover") = 1

---------------------------------------------------------------------------
(* C8: selection lines change under reset only                             *)

\* C8: every step that changes the level of an address line or of a mode
\* enable line starts and ends with the host reset asserted.
C8_SelectChangesUnderReset ==
  [][ (SelectLines' # SelectLines) =>
        (HostResetAsserted /\ HostResetAsserted') ]_vars

\* RESTORE + 5 on Kernal 1: the address lines moved from 0 to 4 in reset
C8_Witness ==
  /\ ctx = "chord" /\ pc = "D_settle" /\ HostResetAsserted
  /\ AddrLines = 4 /\ \A s \in pre : s.addr = 0

---------------------------------------------------------------------------
(* C9, C10: boot-time validation                                           *)

\* C9: after the validation of the Kernal number, for every byte outside
\* 1..8 found in EEPROM cell 0 at power-on, Selection is 1 and cell 0 holds 1.
C9_BootSelection ==
  \A b \in boot :
    (pc # "S_kernal" /\ b[0] \notin 1..8) =>
      (Selection = 1 /\ eeprom[0] = 1)

\* cell 0 was found erased (255); setup has run up to attachInterrupt
C9_Witness ==
  /\ pc = "S_attach" /\ Selection = 1 /\ eeprom[0] = 1
  /\ \A b \in boot : b[0] = 255

\* C10: after their validation, for every byte outside {0, 1} found at
\* power-on in EEPROM cell 1, scan_active is 1 and cell 1 holds 1, and for
\* every such byte found in cell 2, np_mode is 1 and cell 2 holds 1, whatever
\* the other cells held.
C10_BootFlags ==
  \A b \in boot :
    /\ (pc \notin {"S_kernal", "S_addr", "S_scan"} /\ b[1] \notin {0, 1}) =>
         (scan_active = 1 /\ eeprom[1] = 1)
    /\ (pc \notin {"S_kernal", "S_addr", "S_scan", "S_np"}
          /\ b[2] \notin {0, 1}) =>
         (np_mode = 1 /\ eeprom[2] = 1)

\* cell 1 was found at 2 and cell 2 at 0: only the scan flag is defaulted
C10_Witness ==
  /\ pc = "S_attach" /\ scan_active = 1 /\ eeprom[1] = 1
  /\ np_mode = 0 /\ eeprom[2] = 0
  /\ \A b \in boot : b[1] = 2 /\ b[2] = 0

---------------------------------------------------------------------------
\* C11: while an event is pending, a row interrupt leaves colData, numOdd
\* and numPressed as they are, and the key that line 322 takes up is decoded
\* from the snapshot and row of the interrupt that marked the event pending.
C11_DropOnBusy ==
  [][numPressed =>
       /\ cap # {}
       /\ ~MainStep => UNCHANGED <<colData, numOdd, numPressed>>
       /\ (pc = "L_key" /\ MainStep) =>
            \A e \in cap : key' = DecodeKey(e.cols, e.odd, 128)]_vars

\* key 3 (column bit 0, row 0) was pending when a later interrupt fired,
\* and 3 is the key decoded
C11_Witness ==
  /\ pc = "L_end" /\ key = 3
  /\ \E e \in cap : e.cols = 30 /\ e.odd /\ e.dropped

---------------------------------------------------------------------------
\* C12: for every d in 0..8, when RESTORE + d has been handled and the
\* chord handled last before it, with no other reset sequence in between,
\* was RESTORE + d as well, the levels of all output lines and the three
\* EEPROM cells are those the first of the two left.
C12_Idempotent ==
  \A d \in 0..8 : \A l \in last :
    (ChordDone(d) /\ l.d = d) =>
      (pin = l.after.pins /\ eeprom = l.after.store)

\* RESTORE + 5 has been handled twice in a row
C12_Witness ==
  /\ ChordDone(5) /\ RunsOf("chord") = 1
  /\ \E l \in last : l.d = 5 /\ l.after.sel = 5
  /\ Selection = 5

\* RESTORE + 0 has been handled twice in a row
C12_WitnessZero ==
  /\ ChordDone(0) /\ RunsOf("chord") = 1
  /\ \E l \in last : l.d = 0 /\ l.after.scan = 0

---------------------------------------------------------------------------
---------------------------------------------------------------------------
\* C14: when RESTORE + 9 has been handled and the chord handled last before
\* it, with no other reset sequence in between, was RESTORE + 9 as well,
\* VideoMode and EEPROM cell 2 are back at their values before the first of
\* the two and differed from them in between, and Selection and ScanActive
\* are the same before the first, between the two and after the second.
C14_DoubleToggle ==
  \A l \in last :
    (ChordDone(9) /\ l.d = 9) =>
      /\ l.before # {}
      /\ \A b \in l.before :
           /\ VideoMode = b.np
           /\ eeprom[NPModeSlot] = b.store[NPModeSlot]
           /\ l.after.np = 1 - b.np
           /\ l.after.store[NPModeSlot] = 1 - b.store[NPModeSlot]
           /\ Selection = b.sel /\ l.after.sel = b.sel
           /\ scan_active = b.scan /\ l.after.scan = b.scan

\* NTSC, then PAL, then NTSC again on Kernal 3
C14_Witness ==
  /\ ChordDone(9) /\ VideoMode = 1 /\ Selection = 3
  /\ \E l \in last :
       /\ l.d = 9 /\ l.after.np = 0
       /\ \E b \in l.before : b.np = 1 /\ b.store[NPModeSlot] = 1

---------------------------------------------------------------------------
\* C15: in every reachable state NeN and PeN are not both HIGH; NeN is HIGH
\* only inside SetVideoBits with NTSC (1) the mode being applied, PeN only
\* inside SetVideoBits with PAL (0) the mode being applied; during the
\* 500 ms wait the line of the mode being applied is HIGH; and outside
\* SetVideoBits, at boot as in a video switch, both lines are LOW.
C15_ModeLinesExclusive ==
  /\ ~(pin.NeN = "HIGH" /\ pin.PeN = "HIGH")
  /\ pin.NeN = "HIGH" => (pc \in {"V2", "V3", "V4"} /\ np_mode = 1)
  /\ pin.PeN = "HIGH" => (pc \in {"V3", "V4"} /\ np_mode = 0)
  /\ pc \in {"V3", "V4"} =>
       /\ np_mode = 1 => pin.NeN = "HIGH"
       /\ np_mode = 0 => pin.PeN = "HIGH"
  /\ pc \notin {"V1", "V2", "V3", "V4"} =>
       (pin.NeN = "LOW" /\ pin.PeN = "LOW")

\* the 500 ms PAL pulse of a video switch that left NTSC
C15_Witness ==
  /\ ctx = "video" /\ pc = "V3"
  /\ np_mode = 0 /\ pin.PeN = "HIGH" /\ pin.NeN = "LOW"
  /\ \A s \in pre : s.np = 1

\* the 500 ms NTSC pulse of setup()
C15_WitnessBoot ==
  /\ ctx = "setup" /\ pc = "V3"
  /\ np_mode = 1 /\ pin.NeN = "HIGH" /\ pin.PeN = "LOW"

---------------------------------------------------------------------------
\* C16: under any pattern of interrupts and input levels, every reset
\* sequence that starts (in setup(), for a chord, for a watchdog recovery or
\* for a RESTORE long press) comes to its end, back in loop(), with the host
\* reset and the EXROM reset both released, and loop() comes round to its
\* first statement again and again.
C16_SequencerTerminates ==
  /\ (pc = "R1") ~>
       (ctx = "loop" /\ ~HostResetAsserted /\ ~PeripheralResetAsserted)
  /\ []<>(ctx = "loop" /\ pc = "L_wd")

\* a long-press reset sequence has come to its end with both lines released
C16_Witness ==
  /\ ctx = "loop" /\ pc = "L_key" /\ runs = <<"longpress">>
  /\ ~HostResetAsserted /\ ~PeripheralResetAsserted
  /\ dir.C64RES = "OUTPUT" /\ dir.EXROMRES = "INPUT"

---------------------------------------------------------------------------
\* C17: a tick that samples RESTORE not held puts restore_counter back to
\* its default; a tick that samples it held counts restore_counter down by
\* one while it is above zero, and with restore_counter at zero starts the
\* long-press reset sequence, whether a number-key event is pending or not;
\* that sequence has the host reset asserted during its 2 s wait and
\* released when it returns.
C17_LongPress ==
  [][ /\ (pc = "L_restore" /\ MainStep) =>
           IF ~restore_found'
             THEN restore_counter' = Default_Restore_Count /\ ctx' = "loop"
             ELSE IF restore_counter > 0
               THEN restore_counter' = restore_counter - 1 /\ ctx' = "loop"
               ELSE ctx' = "longpress" /\ pc' = "R1"
      /\ (ctx = "longpress" /\ pc = "D_settle") => HostResetAsserted
      /\ (ctx = "longpress" /\ ctx' = "loop") => ~HostResetAsserted'
    ]_vars

\* RESTORE, released before, has been held until restore_counter came down
\* to zero: the host is held in reset, and no number-key event is pending
C17_Witness ==
  /\ ctx = "longpress" /\ pc = "D_settle"
  /\ released /\ restore_found /\ restore_counter = 0
  /\ ~numPressed /\ cap = {}
  /\ HostResetAsserted

---------------------------------------------------------------------------
\* C18 as stated: the EXROM reset is never asserted while the host reset is
\* not, and every reset sequence called from loop() comes back from its
\* final wait (and the bookkeeping that follows it).
C18_OrderingAsStated ==
  [][ /\ PeripheralResetAsserted => HostResetAsserted
      /\ (ctx \in {"chord", "video", "recover", "longpress"}
            /\ ctx' = "loop") => pc = "B"
    ]_vars

\* C18, amended: the host reset is asserted by the first statement of
\* systemRESET only, and the EXROM reset after it, with the host reset
\* asserted; address and mode lines change only with both asserted; the 2 s
\* settle wait has both asserted and, in a Kernal switch, the address lines
\* at kernal_addr; the host reset is released only in systemUNRESET, with
\* the EXROM reset still asserted, and the EXROM reset only after it, so
\* the EXROM reset is asserted without the host reset only between these
\* two; the final wait has both released; and the long-press sequence
\* changes no address or mode line and returns from systemUNRESET with no
\* final wait.
C18_Ordering ==
  [][ /\ (~HostResetAsserted /\ HostResetAsserted') => pc = "R1"
      /\ (~PeripheralResetAsserted /\ PeripheralResetAsserted') =>
           (pc = "R5" /\ HostResetAsserted)
      /\ (SelectLines' # SelectLines) =>
           /\ HostResetAsserted /\ PeripheralResetAsserted
           /\ HostResetAsserted' /\ PeripheralResetAsserted'
           /\ ctx # "longpress"
      /\ pc = "D_settle" =>
           /\ HostResetAsserted /\ PeripheralResetAsserted
           /\ ctx \in {"chord", "recover"} => AddrLines = kernal_addr
      /\ (HostResetAsserted /\ ~HostResetAsserted') =>
           (pc = "U1" /\ PeripheralResetAsserted)
      /\ (PeripheralResetAsserted /\ ~PeripheralResetAsserted') =>
           (pc = "U5" /\ ~HostResetAsserted)
      /\ (PeripheralResetAsserted /\ ~HostResetAsserted) =>
           pc \in {"U2", "U3", "U4", "U5"}
      /\ pc = "D_final" =>
           /\ ~HostResetAsserted /\ ~PeripheralResetAsserted
           /\ ctx \in {"chord", "video", "recover"}
      /\ (ctx = "longpress" /\ ctx' = "loop") => pc = "U7"
      /\ (ctx \in {"chord", "video", "recover"} /\ ctx' = "loop") =>
           pc = "B"
    ]_vars

\* RESTORE + 6: in the 300 ms wait of systemUNRESET the host reset is
\* released, the EXROM reset still asserted, the address lines at 5
C18_Witness ==
  /\ ctx = "chord" /\ pc = "U4" /\ Selection = 6 /\ AddrLines = 5
  /\ PeripheralResetAsserted /\ ~HostResetAsserted

---------------------------------------------------------------------------
\* setup() has executed the first statement of its systemRESET
AfterFirstAssertion ==
  ~(ctx = "setup" /\ pc \in {"S_kernal", "S_addr", "S_scan", "S_np", "R1"})

\* C19 as stated: after the first reset assertion, C64RES is an output
\* exactly when the host reset is asserted and EXROMRES is an output exactly
\* when the EXROM reset is asserted.
C19_DirectionAsStated ==
  AfterFirstAssertion =>
    /\ (dir.C64RES = "OUTPUT") <=> HostResetAsserted
    /\ (dir.EXROMRES = "OUTPUT") <=> PeripheralResetAsserted

\* C19, amended: after the first reset assertion, C64RES is an input exactly
\* when the host reset is asserted and an output otherwise, and EXROMRES is
\* an output exactly when the EXROM reset is asserted and an input
\* otherwise, which from its first assertion on is exactly when its level is
\* LOW; each holds except between a level write and the pinMode that
\* follows it (lines 171-172, 175-176, 185-186, 190-191).
C19_DirectionFollows ==
  AfterFirstAssertion =>
    /\ pc \notin {"R2", "U2"} =>
         ((dir.C64RES = "INPUT") <=> HostResetAsserted)
    /\ pc # "U6" => ((dir.EXROMRES = "OUTPUT") <=> PeripheralResetAsserted)
    /\ (pc \notin {"R5", "U6"}
          /\ ~(ctx = "setup" /\ pc \in {"R2", "R3", "R4"})) =>
         ((dir.EXROMRES = "OUTPUT") <=> (pin.EXROMRES = "LOW"))

\* the settle wait of a video switch: host reset asserted with C64RES an
\* input, EXROM reset asserted with EXROMRES an output
C19_Witness ==
  /\ ctx = "video" /\ pc = "D_settle"
  /\ HostResetAsserted /\ dir.C64RES = "INPUT"
  /\ PeripheralResetAsserted /\ dir.EXROMRES = "OUTPUT"

\* back in loop(): host reset released with C64RES an output, EXROM reset
\* released with EXROMRES an input
C19_WitnessReleased ==
  /\ ctx = "loop" /\ pc = "L_end" /\ RunsOf("video") = 1
  /\ ~HostResetAsserted /\ dir.C64RES = "OUTPUT"
  /\ ~PeripheralResetAsserted /\ dir.EXROMRES = "INPUT"

---------------------------------------------------------------------------
\* C20: whenever loop() is about to clear numPressed (line 364) with an
\* event pending, the same iteration has seen the flag set at line 322 and
\* decoded the key from the snapshot and row of the interrupt that marked
\* the event pending.
C20_NoEventLost ==
  (pc = "L_end" /\ numPressed) =>
    /\ pre # {}
    /\ \A e \in cap : key = DecodeKey(e.cols, e.odd, 128)

---------------------------------------------------------------------------
\* C21 as stated: an event captured while a reset sequence is running is
\* processed in the iteration of loop() after the one that ran the sequence:
\* when that iteration comes to its end (line 363) the event has not been
\* taken up yet.
C21_ProcessedNextIteration ==
  \A e \in cap :
    (pc = "L_end" /\ e.at \in {"chord", "video", "recover", "longpress"}) =>
      pre = {}

\* C21, amended: no event is captured during a reset sequence started by a
\* chord (the chord's own event is pending throughout); an event captured
\* during a watchdog recovery or a long-press reset stays pending, with its
\* payload, through every statement of the sequence, and is decoded by the
\* key processing (line 322) of the same iteration of loop(), after the
\* sequence has returned.
C21_ProcessedAfterRun ==
  [][ \A e \in cap :
        /\ e.at \notin {"chord", "video"}
        /\ (ctx \in {"chord", "video"}) => (numPressed /\ e.at # ctx)
        /\ (e.at \in {"recover", "longpress"} /\ MainStep /\ pc # "L_end") =>
             /\ numPressed /\ numPressed'
             /\ colData' = e.cols /\ numOdd' = e.odd
             /\ cap' = cap
        /\ (e.at \in {"recover", "longpress"} /\ MainStep /\ pc = "L_key") =>
             /\ RunsOf(e.at) >= 1
             /\ key' = DecodeKey(e.cols, e.odd, 128)
    ]_vars

\* key 4 (column bit 0, row 3) was captured during a watchdog recovery and
\* has been decoded in the iteration that ran the recovery
C21_Witness ==
  /\ pc = "L_end" /\ key = 4 /\ RunsOf("recover") = 1
  /\ \E e \in cap : e.at = "recover" /\ e.cols = 30 /\ ~e.odd

---------------------------------------------------------------------------
\* C22 as stated: a step of an interrupt handler changes none of Selection,
\* ScanActive, VideoMode, scan_counter, scan_found, the EEPROM and the
\* output lines, and numPressed goes from true to false only by a step of
\* loop().
C22_HandlerFrameAsStated ==
  [][ /\ ~MainStep =>
           UNCHANGED <<kernal_num, scan_active, np_mode, scan_counter,
                       scan_found, eeprom, pin, dir>>
      /\ (numPressed /\ ~numPressed') => MainStep
    ]_vars

\* C22, amended: a step of an interrupt handler changes none of the main
\* thread's variables, of the EEPROM and of the output lines, except that a
\* handler that finds no event pending sets scan_found (lines 259, 271);
\* and numPressed goes from true to false only by line 364 of loop().
C22_HandlerFrame ==
  [][ /\ ~MainStep =>
           /\ UNCHANGED <<mainVars, eeprom, pin, dir, attached>>
           /\ (scan_found' # scan_found) => (scan_found' /\ ~numPressed)
           /\ ~numPressed => scan_found'
      /\ (numPressed /\ ~numPressed') => (MainStep /\ pc = "L_end")
    ]_vars

\* a handler has set scan_found during the watchdog recovery that found it
\* false
C22_Witness ==
  /\ ctx = "recover" /\ pc = "D_settle" /\ scan_found
  /\ \E e \in cap : e.at = "recover" /\ e.cols = 29 /\ e.odd

---------------------------------------------------------------------------
\* C23: a handler that runs with no event pending and reads the snapshot
\* 0x1F or 0x00 leaves numPressed false; for every other 5-bit snapshot it
\* sets numPressed, and the one event then pending carries that snapshot
\* and the parity of the handler's row.
C23_NoiseFilter ==
  [][ (~MainStep /\ ~numPressed) =>
        /\ colData' \in {0, 31} => (~numPressed' /\ cap' = cap)
        /\ colData' \in (AllColumns \ {0, 31}) =>
             /\ numPressed'
             /\ Cardinality(cap') = 1
             /\ \A e \in cap' : e.cols = colData' /\ e.odd = numOdd'
        /\ ~numPressed' => colData' \in {0, 31}
    ]_vars

\* the row-3 handler has read 0x15 (columns 1 and 3 low) and marked it
\* pending
C23_Witness ==
  /\ numPressed /\ colData = 21 /\ ~numOdd
  /\ \E e \in cap : e.cols = 21 /\ ~e.odd /\ ~e.dropped

\* the row-0 handler has read 0x00 with no event pending: none is pending
C23_WitnessNoise ==
  /\ ~numPressed /\ colData = 0 /\ numOdd /\ cap = {} /\ pc = "L_key"

---------------------------------------------------------------------------
(* C24: the reference table of the key decode                              *)

\* the bits of snapshot c that are cleared (columns low)
LowBits(c) == {b \in 0..4 : (c \div (2 ^ b)) % 2 = 0}

\* priority order of the bits and the odd digit each gives
RefPriority == <<4, 0, 1, 2, 3>>
RefDigits == <<1, 3, 5, 7, 9>>

\* the digit of the first cleared bit in priority order; for the row of the
\* even digits one more, 10 wrapping to 0
RefKey(c, odd) ==
  LET i == CHOOSE n \in 1..5 :
             /\ RefPriority[n] \in LowBits(c)
             /\ \A m \in 1..(n - 1) : RefPriority[m] \notin LowBits(c)
      d == RefDigits[i]
  IN IF odd THEN d ELSE (d + 1) % 10

\* C24: whenever line 322 takes up a pending event, its snapshot is in
\* 0x01..0x1E and the key decoded is the one the reference table gives for
\* the snapshot and the row; and for every snapshot in 0x01..0x1E and both
\* rows the decode of lines 323-331 equals the reference table.
C24_DecodeTable ==
  [][ (pc = "L_key" /\ MainStep /\ numPressed) =>
        /\ colData \in 1..30
        /\ key' = RefKey(colData, numOdd)
        /\ \A c \in 1..30 : \A odd \in BOOLEAN :
             DecodeKey(c, odd, 128) = RefKey(c, odd)
    ]_vars

\* 0x06 (columns 7, 1 and 4 low) from row 3: column 7 wins, key 2
C24_Witness ==
  /\ pc = "L_end" /\ pre # {} /\ colData = 6 /\ ~numOdd /\ key = 2

\* 0x17 (column 4 low) from row 3: 9 + 1 wraps to 0
C24_WitnessWrap ==
  /\ pc = "L_end" /\ pre # {} /\ colData = 23 /\ ~numOdd /\ key = 0

---------------------------------------------------------------------------
\* C25: whenever line 322 takes up a pending event, key holds the idle
\* value 128, the snapshot has at least one bit cleared, and the key
\* decoded is in 0..9; for every snapshot in 0x01..0x1E and both rows the
\* decode is in 0..9 and does not depend on the value key held before.
C25_KeyInRange ==
  [][ (pc = "L_key" /\ MainStep /\ numPressed) =>
        /\ key = 128
        /\ colData \in 1..30
        /\ LowBits(colData) # {}
        /\ key' \in 0..9
        /\ \A c \in 1..30 : \A odd \in BOOLEAN :
             \A k0 \in {0, 5, 9, 10, 128, 255} :
               /\ DecodeKey(c, odd, k0) \in 0..9
               /\ DecodeKey(c, odd, k0) = DecodeKey(c, odd, 128)
    ]_vars

\* RESTORE + 8 (0x1B from row 3) has been decoded and acted on
C25_Witness ==
  /\ ChordDone(8) /\ colData = 27 /\ ~numOdd /\ Selection = 8
  /\ \A s \in pre : s.sel # 8

---------------------------------------------------------------------------
\* C26: when a reset sequence run for RESTORE + 0..9 or for a watchdog
\* recovery returns to loop(), scan_counter is at its default, and
\* scan_found is false if scan_active is 1 and true if it is not.
C26_RunEndsRearmed ==
  [][ (ctx \in {"chord", "video", "recover"} /\ ctx' = "loop") =>
        /\ scan_counter' = Default_Scan_Count
        /\ (scan_active' = 1) => ~scan_found'
        /\ (scan_active' # 1) => scan_found'
    ]_vars

\* RESTORE + 0 taken up with scanning on: back in loop() the countdown is
\* at its default and the watchdog is satisfied
C26_Witness ==
  /\ ChordDone(0) /\ scan_active = 0 /\ scan_found
  /\ scan_counter = Default_Scan_Count
  /\ \A s \in pre : s.scan = 1

\* RESTORE + 9 with scanning on: back in loop() the watchdog is watching
C26_WitnessVideo ==
  /\ ChordDone(9) /\ scan_active = 1 /\ ~scan_found
  /\ scan_counter = Default_Scan_Count

---------------------------------------------------------------------------
\* C27: a tick of the watchdog that finds scan_found false reads the
\* columns, and if the read is not 0x1F it sets scan_found, leaves
\* scan_counter as it is, whether zero or not, and goes on to the RESTORE
\* sample without starting a recovery: Selection, the EEPROM and the output
\* lines are unchanged.
C27_PassiveSampling ==
  [][ (pc = "L_wd" /\ MainStep /\ ~scan_found) =>
        \A s \in iter0' :
          /\ s.sample \in {"active", "idle"}
          /\ (s.sample = "active") =>
               /\ scan_found'
               /\ scan_counter' = scan_counter
               /\ ctx' = "loop" /\ pc' = "L_restore" /\ runs' = runs
               /\ UNCHANGED <<kernal_num, kernal_addr, scan_active, eeprom,
                              pin, dir>>
    ]_vars

\* scanning on, countdown at zero, no event captured: the tick has sampled
\* a column low and the watchdog is satisfied without recovery
C27_Witness ==
  /\ pc = "L_restore" /\ runs = <<>> /\ cap = {} /\ ~numPressed
  /\ scan_active = 1 /\ scan_counter = 0 /\ scan_found
  /\ Selection = 6
  /\ \A s \in iter0 : s.sample = "active"

---------------------------------------------------------------------------
\* C28: scan_counter stays within 0..Default_Scan_Count; it goes down only
\* in the watchdog step of a loop iteration, by exactly one, when scan_found
\* is false and the columns read 0x1F, and every such step with a positive
\* counter takes it down; every other change sets it to the default.  The
\* recovery starts only in a watchdog step that finds scan_counter at zero,
\* with scan_found false and the columns idle, after at least
\* Default_Scan_Count such idle ticks since scan_counter was last set.
C28_CounterInRange == scan_counter \in 0..Default_Scan_Count

C28_NoEarlyRecovery ==
  [][ /\ C28_CounterInRange
      /\ (scan_counter' # scan_counter) =>
           \/ scan_counter' = Default_Scan_Count
           \/ /\ pc = "L_wd" /\ ctx = "loop" /\ ~scan_found
              /\ scan_counter' = scan_counter - 1
              /\ \A s \in iter0' : s.sample = "idle"
      /\ (pc = "L_wd" /\ MainStep /\ ~scan_found /\ scan_counter > 0
            /\ \A s \in iter0' : s.sample = "idle") =>
           /\ scan_counter' = scan_counter - 1
           /\ ctx' = "loop"
      /\ (ctx = "loop" /\ ctx' = "recover") =>
           /\ pc = "L_wd" /\ ~scan_found
           /\ scan_counter = 0 /\ scan_counter' = 0
           /\ quiet >= Default_Scan_Count
           /\ \A s \in iter0' : s.sample = "idle"
    ]_vars

\* the recovery has just started, after a full count of idle ticks
C28_Witness ==
  /\ ctx = "recover" /\ pc = "R1"
  /\ scan_counter = 0 /\ quiet = Default_Scan_Count
  /\ \A s \in iter0 : s.sample = "idle" /\ s.sel # 1

\* a tick has taken the counter down by one from the default
C28_WitnessTick ==
  /\ ctx = "loop" /\ pc = "L_restore"
  /\ scan_counter = Default_Scan_Count - 1 /\ quiet = 1 /\ ~scan_found
  /\ \A s \in iter0 : s.sample = "idle"

---------------------------------------------------------------------------
\* C29: no step of a watchdog recovery changes scan_active, np_mode, EEPROM
\* cells 1 and 2 or the NeN and PeN lines, and when the recovery returns
\* they are what they were when the loop iteration began; of the pins only
\* the address lines differ from then, and of the EEPROM only cell 0.
C29_RecoveryFrame ==
  [][ /\ (ctx = "recover" \/ ctx' = "recover") =>
           /\ UNCHANGED <<scan_active, np_mode>>
           /\ eeprom'[ScanActiveSlot] = eeprom[ScanActiveSlot]
           /\ eeprom'[NPModeSlot] = eeprom[NPModeSlot]
           /\ pin'.NeN = pin.NeN /\ pin'.PeN = pin.PeN
      /\ (ctx = "recover" /\ ctx' = "loop") =>
           \A s \in iter0 :
             /\ s.scan = scan_active' /\ s.np = np_mode'
             /\ eeprom' = [s.store EXCEPT ![KernalSlot] = 1]
             /\ \A p \in DOMAIN pin :
                  p \notin {"A13", "A14", "A15"} => pin'[p] = s.pins[p]
             /\ dir' = s.dirs
    ]_vars

\* a recovery from Kernal 5 with NTSC selected has returned
C29_Witness ==
  /\ pc = "L_restore" /\ runs = <<"recover">>
  /\ Selection = 1 /\ np_mode = 1 /\ scan_active = 1
  /\ eeprom = [i \in 0..2 |-> 1]
  /\ \A s \in iter0 : s.sel = 5 /\ s.np = 1 /\ s.store[KernalSlot] = 5

---------------------------------------------------------------------------
\* C30 as stated: when the long-press reset sequence returns, scan_counter
\* is at its default and scan_found is false.
C30_RearmedAtCompletion ==
  [][ (ctx = "longpress" /\ ctx' = "loop") =>
        /\ scan_counter' = Default_Scan_Count
        /\ ~scan_found'
    ]_vars

\* C30, amended: the long-press branch sets scan_counter to its default and
\* scan_found to false right after systemRESET, whatever they were and
\* whether scanning is on or off; no later statement of the sequence writes
\* either, so scan_counter is at its default when the sequence returns, and
\* scan_found is true by then only through a row handler that ran, with no
\* event pending, during the 2 s wait or systemUNRESET.
C30_Rearmed ==
  [][ /\ (ctx = "longpress" /\ pc = "LP_book" /\ MainStep) =>
           /\ scan_counter' = Default_Scan_Count
           /\ ~scan_found'
      /\ (ctx = "longpress" /\ pc # "LP_book" /\ MainStep) =>
           UNCHANGED <<scan_counter, scan_found>>
      /\ (ctx = "longpress" /\ ~MainStep) =>
           /\ scan_counter' = scan_counter
           /\ (scan_found' # scan_found) => (~numPressed /\ scan_found')
      /\ (ctx = "longpress" /\ ctx' = "loop") =>
           scan_counter' = Default_Scan_Count
    ]_vars

\* with scanning off, where scan_found is true at every earlier tick, a
\* long press has returned with the watchdog counting from the default
C30_Witness ==
  /\ ctx = "loop" /\ pc = "L_key" /\ runs = <<"longpress">>
  /\ scan_active = 0
  /\ scan_counter = Default_Scan_Count /\ ~scan_found

\* a long press has returned with scan_found set again by a handler that
\* took an idle snapshot during the sequence
C30_WitnessSet ==
  /\ ctx = "loop" /\ pc = "L_key" /\ runs = <<"longpress">>
  /\ scan_active = 1
  /\ scan_counter = Default_Scan_Count /\ scan_found
  /\ ~numPressed /\ cap = {} /\ colData = 31

---------------------------------------------------------------------------
\* C31: whenever the main thread is in loop(), outside the reset sequences
\* it calls, and so at the start of every loop iteration, the lines A13, A14
\* and A15 carry bits 0, 1 and 2 of kernal_num - 1.
C31_AddressFollowsSelection ==
  (ctx = "loop") =>
     /\ kernal_num \in 1..KMax
     /\ AddrLines = kernal_num - 1
     /\ pin.A13 = AddrBit(kernal_num - 1, 0)
     /\ pin.A14 = AddrBit(kernal_num - 1, 1)
     /\ pin.A15 = AddrBit(kernal_num - 1, 2)

\* an iteration starts with Kernal 4 on the lines (A13 and A14 HIGH, A15
\* LOW) after a chord, a recovery to Kernal 1 and a second chord
C31_Witness ==
  /\ pc = "L_wd" /\ ctx = "loop" /\ runs = <<>>
  /\ kernal_num = 4
  /\ pin.A13 = "HIGH" /\ pin.A14 = "HIGH" /\ pin.A15 = "LOW"
  /\ \E l \in last : l.d = 4

\* an iteration starts after a long press that followed a chord for Kernal 7
C31_WitnessLongPress ==
  /\ pc = "L_end" /\ ctx = "loop" /\ runs = <<"longpress">>
  /\ kernal_num = 7 /\ AddrLines = 6
  /\ eeprom[KernalSlot] = 7

---------------------------------------------------------------------------
\* C32: whenever the main thread is in loop(), and so at the start of every
\* loop iteration, EEPROM cell 0 holds kernal_num, cell 1 scan_active and
\* cell 2 np_mode, and the three are values setup() accepts as they are, so
\* that a boot from this EEPROM loads the same three values; the EEPROM
\* cells the sketch writes are cells 0, 1 and 2 only.
C32_StoreMirrorsMemory ==
  /\ DOMAIN eeprom = {KernalSlot, ScanActiveSlot, NPModeSlot}
  /\ wrote \subseteq {KernalSlot, ScanActiveSlot, NPModeSlot}
  /\ (ctx = "loop") =>
       /\ eeprom[KernalSlot] = kernal_num
       /\ eeprom[ScanActiveSlot] = scan_active
       /\ eeprom[NPModeSlot] = np_mode
       /\ ~KernalOutOfRange(eeprom[KernalSlot])
       /\ ~FlagOutOfRange(eeprom[ScanActiveSlot])
       /\ ~FlagOutOfRange(eeprom[NPModeSlot])

\* an iteration starts after RESTORE + 9 has switched to PAL with Kernal 3
\* selected and scanning on
C32_Witness ==
  /\ pc = "L_wd" /\ ctx = "loop" /\ runs = <<>>
  /\ kernal_num = 3 /\ scan_active = 1 /\ np_mode = 0
  /\ eeprom[KernalSlot] = 3 /\ eeprom[ScanActiveSlot] = 1
  /\ eeprom[NPModeSlot] = 0
  /\ \E l \in last : l.d = 9 /\ \A s \in l.before : s.np = 1

---------------------------------------------------------------------------
\* C33 as stated: a loop iteration that starts with scan_active = 0 starts
\* with scan_found true.
C33_InertSatisfied ==
  (pc = "L_wd" /\ ctx = "loop" /\ scan_active = 0) => scan_found

\* C33, amended: with scan_active = 0, setup(), SwitchKernal and SwitchVideo
\* return with scan_found true, and the only statement that makes scan_found
\* false is the one of the RESTORE long-press branch (line 315).  A loop
\* iteration may then start with scan_active = 0 and scan_found false; its
\* watchdog tick starts no recovery, and sets scan_found again when it reads
\* a column low or finds scan_counter at zero, counting scan_counter down
\* otherwise.
C33_InertUnlessLongPress ==
  [][ /\ (scan_active = 0 /\ scan_active' = 0 /\ scan_found /\ ~scan_found') =>
           (ctx = "longpress" /\ pc = "LP_book")
      /\ (ctx \in {"setup", "chord", "video"} /\ ctx' = "loop"
            /\ scan_active' = 0) => scan_found'
      /\ (pc = "L_wd" /\ MainStep /\ scan_active = 0) =>
           /\ ctx' = "loop" /\ pc' = "L_restore"
           /\ UNCHANGED <<kernal_num, scan_active, eeprom, pin, dir>>
           /\ \A s \in iter0' :
                IF scan_found \/ s.sample = "active" \/ scan_counter = 0
                  THEN scan_found'
                  ELSE ~scan_found' /\ scan_counter' = scan_counter - 1
    ]_vars

\* a loop iteration starts with scanning off and scan_found false, after a
\* long press
C33_Witness ==
  /\ pc = "L_wd" /\ ctx = "loop" /\ runs = <<>>
  /\ scan_active = 0 /\ eeprom[ScanActiveSlot] = 0
  /\ ~scan_found /\ scan_counter = Default_Scan_Count
  /\ restore_found /\ restore_counter = 0

\* the watchdog tick has found scan_counter at zero with scanning off and
\* has set scan_found again without a recovery
C33_WitnessInert ==
  /\ pc = "L_restore" /\ ctx = "loop" /\ runs = <<>>
  /\ scan_active = 0 /\ scan_found
  /\ scan_counter = Default_Scan_Count /\ quiet = 0
  /\ \A s \in iter0 : s.sample = "idle"

---------------------------------------------------------------------------
\* C34: between two ticks that sample RESTORE not held, at most one
\* long-press reset is started: no long-press reset starts when one has
\* been started since RESTORE was last sampled not held.  The code starts
\* one on every tick that samples RESTORE held with restore_counter at zero,
\* and the long-press branch leaves restore_counter at zero.
C34_FiresOnce ==
  [][ (pc = "L_restore" /\ ctx = "loop" /\ ctx' = "longpress") => ~fired
    ]_vars

---------------------------------------------------------------------------
\* C35: no step of a RESTORE long-press reset changes kernal_num,
\* kernal_addr, scan_active, np_mode, the EEPROM, the address lines or the
\* NeN and PeN lines; the steps of the main thread in it change only the two
\* reset pins, scan_counter and scan_found, and when it returns both resets
\* are released, with pin levels and directions as they were when it began.
C35_LongPressFrame ==
  [][ /\ (ctx = "longpress" \/ ctx' = "longpress") =>
           /\ UNCHANGED <<kernal_num, kernal_addr, scan_active, np_mode,
                          eeprom>>
           /\ \A p \in {"A13", "A14", "A15", "NeN", "PeN"} : pin'[p] = pin[p]
      /\ (ctx = "longpress" /\ MainStep) =>
           /\ UNCHANGED <<restore_found, restore_counter, key, isrVars,
                          attached>>
           /\ (pc # "LP_book") => UNCHANGED <<scan_counter, scan_found>>
           /\ (pc \notin {"R1", "R2", "R3", "R4", "R5", "R6", "U0", "U1",
                          "U2", "U3", "U4", "U5", "U6", "U7"}) =>
                UNCHANGED <<pin, dir>>
      /\ (ctx = "loop" /\ ctx' = "longpress") =>
           (~HostResetAsserted /\ ~PeripheralResetAsserted)
      /\ (ctx = "longpress" /\ ctx' = "loop") =>
           /\ ~HostResetAsserted' /\ ~PeripheralResetAsserted'
           /\ pin'.C64RES = "LOW" /\ dir'.C64RES = "OUTPUT"
           /\ dir'.EXROMRES = "INPUT"
    ]_vars

\* a long press has returned with Kernal 5, PAL and scanning on, in memory,
\* in the EEPROM and on the lines
C35_Witness ==
  /\ ctx = "loop" /\ pc = "L_key" /\ runs = <<"longpress">>
  /\ kernal_num = 5 /\ scan_active = 1 /\ np_mode = 0
  /\ eeprom[KernalSlot] = 5 /\ eeprom[ScanActiveSlot] = 1
  /\ eeprom[NPModeSlot] = 0
  /\ AddrLines = 4 /\ pin.NeN = "LOW" /\ pin.PeN = "LOW"
  /\ ~HostResetAsserted /\ ~PeripheralResetAsserted
  /\ \A s \in iter0 : s.sel = 5 /\ s.np = 0 /\ s.pins = pin /\ s.dirs = dir

---------------------------------------------------------------------------
\* C36: whenever the main thread is in loop(), outside the reset sequences
\* it calls, and so at the start of every loop iteration, the host reset and
\* the EXROM reset are both released: C64RES is an output driven LOW and
\* EXROMRES is an input.
C36_ResetsReleasedInLoop ==
  (ctx = "loop") =>
     /\ ~HostResetAsserted
     /\ ~PeripheralResetAsserted
     /\ pin.C64RES = "LOW" /\ dir.C64RES = "OUTPUT"
     /\ dir.EXROMRES = "INPUT"

\* an iteration starts with both resets released after a long-press reset
\* with Kernal 1 selected, RESTORE not sampled released since
C36_Witness ==
  /\ pc = "L_wd" /\ ctx = "loop" /\ runs = <<>>
  /\ ~HostResetAsserted /\ ~PeripheralResetAsserted
  /\ fired /\ kernal_num = 1 /\ scan_active = 1
  /\ scan_counter = Default_Scan_Count /\ ~scan_found
  /\ last = {}

\* the first iteration starts with both resets released after boot
C36_WitnessBoot ==
  /\ pc = "L_wd" /\ ctx = "loop" /\ runs = <<>>
  /\ ~HostResetAsserted /\ ~PeripheralResetAsserted
  /\ ~released /\ ~fired /\ restore_counter = 0 /\ ~restore_found
  /\ quiet = 0 /\ last = {}

---------------------------------------------------------------------------
\* C37: in setup(), once a byte has been validated, its EEPROM cell has been
\* written if and only if the byte found at power-on was out of range,
\* whatever the other two bytes are; a byte in range is loaded as it is and
\* its cell keeps it.  With all three bytes in range setup() writes no cell
\* and loads kernal_num, scan_active and np_mode equal to them.
PastSetupStep(step) ==
  ctx = "setup" /\ IndexOf(SetupProg, pc) > IndexOf(SetupProg, step)

C37_ValidBytesKept ==
  (ctx = "setup" /\ ~attached) =>
    \A b \in boot :
      /\ PastSetupStep("S_kernal") =>
           /\ (KernalSlot \in wrote) <=> KernalOutOfRange(b[KernalSlot])
           /\ ~KernalOutOfRange(b[KernalSlot]) =>
                /\ kernal_num = b[KernalSlot]
                /\ eeprom[KernalSlot] = b[KernalSlot]
      /\ PastSetupStep("S_scan") =>
           /\ (ScanActiveSlot \in wrote) <=> FlagOutOfRange(b[ScanActiveSlot])
           /\ ~FlagOutOfRange(b[ScanActiveSlot]) =>
                /\ scan_active = b[ScanActiveSlot]
                /\ eeprom[ScanActiveSlot] = b[ScanActiveSlot]
      /\ PastSetupStep("S_np") =>
           /\ (NPModeSlot \in wrote) <=> FlagOutOfRange(b[NPModeSlot])
           /\ ~FlagOutOfRange(b[NPModeSlot]) =>
                /\ np_mode = b[NPModeSlot]
                /\ eeprom[NPModeSlot] = b[NPModeSlot]
      /\ ( /\ PastSetupStep("S_np")
           /\ ~KernalOutOfRange(b[KernalSlot])
           /\ ~FlagOutOfRange(b[ScanActiveSlot])
           /\ ~FlagOutOfRange(b[NPModeSlot]) ) =>
           /\ wrote = {} /\ eeprom = b
           /\ <<kernal_num, scan_active, np_mode>>
                = <<b[KernalSlot], b[ScanActiveSlot], b[NPModeSlot]>>

\* setup() has validated the bytes 8, 0, 0, all in range, and written none
C37_Witness ==
  /\ ctx = "setup" /\ pc = "S_attach" /\ ~attached
  /\ boot = {eeprom} /\ wrote = {}
  /\ eeprom[KernalSlot] = 8 /\ eeprom[ScanActiveSlot] = 0
  /\ eeprom[NPModeSlot] = 0
  /\ kernal_num = 8 /\ scan_active = 0 /\ np_mode = 0

\* setup() has found the Kernal number and the video mode out of range and
\* the scan flag in range: it has written cells 0 and 2 and not cell 1
C37_WitnessMixed ==
  /\ ctx = "setup" /\ pc = "S_attach" /\ ~attached
  /\ wrote = {KernalSlot, NPModeSlot}
  /\ \A b \in boot : b[KernalSlot] = 9 /\ b[ScanActiveSlot] = 0
                        /\ b[NPModeSlot] = 255
  /\ boot # {}
  /\ kernal_num = 1 /\ scan_active = 0 /\ np_mode = 1
  /\ eeprom[KernalSlot] = 1 /\ eeprom[ScanActiveSlot] = 0
  /\ eeprom[NPModeSlot] = 1

---------------------------------------------------------------------------
\* C38 as stated: when setup() returns, the address lines carry
\* kernal_num - 1, scan_counter is at its default, and scan_found is false
\* if scan_active is 1 and true if it is 0.
C38_BootCompleteAsStated ==
  [][ (ctx = "setup" /\ ctx' = "loop") =>
        /\ AddrLines' = kernal_num' - 1
        /\ scan_counter' = Default_Scan_Count
        /\ scan_found' = (scan_active' = 0)
    ]_vars

\* C38, amended: setup() drives the address lines with kernal_num - 1 and
\* pulses NeN (NTSC) or PeN (PAL) for the validated video mode while the
\* resets are asserted, then sets scan_counter to its default and scan_found
\* to (scan_active = 0), before it attaches the row interrupts and releases
\* the resets.  When setup() returns the address lines carry kernal_num - 1,
\* NeN and PeN are LOW, kernal_num, scan_active and np_mode are the EEPROM
\* cells, scan_counter is at its default, and scan_found is true if
\* scan_active is 0; with scan_active = 1 it is false unless a row handler
\* has run since the interrupts were attached.
C38_BootComplete ==
  [][ /\ (ctx = "setup" /\ pc = "V4" /\ MainStep) =>
           /\ pc' = "S_count"
           /\ HostResetAsserted /\ PeripheralResetAsserted
           /\ AddrLines = kernal_num - 1
           /\ np_mode = eeprom[NPModeSlot]
           /\ IF np_mode = 1
                THEN pin.NeN = "HIGH" /\ pin.PeN = "LOW"
                ELSE pin.PeN = "HIGH" /\ pin.NeN = "LOW"
           /\ pin'.NeN = "LOW" /\ pin'.PeN = "LOW"
      /\ (ctx = "setup" /\ pc = "S_count" /\ MainStep) =>
           /\ ~attached
           /\ scan_counter' = Default_Scan_Count
           /\ scan_found' = (scan_active = 0)
      /\ (ctx = "setup" /\ ~MainStep /\ scan_found' # scan_found) =>
           (attached /\ ~numPressed /\ scan_found')
      /\ (ctx = "setup" /\ ctx' = "loop") =>
           /\ pc' = "L_wd"
           /\ AddrLines' = kernal_num' - 1
           /\ pin'.NeN = "LOW" /\ pin'.PeN = "LOW"
           /\ kernal_num' = eeprom'[KernalSlot]
           /\ scan_active' = eeprom'[ScanActiveSlot]
           /\ np_mode' = eeprom'[NPModeSlot]
           /\ scan_counter' = Default_Scan_Count
           /\ (scan_active' = 0) => scan_found'
           /\ ~HostResetAsserted' /\ ~PeripheralResetAsserted'
    ]_vars

\* setup() has returned with Kernal 6, NTSC and scanning on, no row handler
\* having run: the watchdog counts from the default
C38_Witness ==
  /\ ctx = "loop" /\ pc = "L_wd" /\ iter0 = {} /\ ~released /\ ~fired
  /\ restore_counter = 0 /\ ~restore_found /\ key = 128
  /\ kernal_num = 6 /\ AddrLines = 5 /\ np_mode = 1 /\ scan_active = 1
  /\ scan_counter = Default_Scan_Count /\ ~scan_found /\ colData = 31

\* setup() has returned with scanning on and scan_found set by a row
\* handler that ran while the resets were being released
C38_WitnessSet ==
  /\ ctx = "loop" /\ pc = "L_wd" /\ iter0 = {} /\ ~released /\ ~fired
  /\ restore_counter = 0 /\ ~restore_found /\ key = 128
  /\ scan_active = 1 /\ scan_counter = Default_Scan_Count
  /\ scan_found /\ numPressed /\ colData = 30

====
